---- MODULE Spec2Model ----
(***************************************************************************)
(* Model of the server registry of mcp-auto-install: the in-memory         *)
(* registry `serverSettings`, the registry file mcp/mcp_settings.json,     *)
(* the external LLM configuration file named by MCP_SETTINGS_PATH, the     *)
(* handlers that read and write them, and the two installers.              *)
(*                                                                         *)
(* Optional values (a field that may be undefined in the TypeScript) are   *)
(* sequences of length 0 (undefined) or 1 (the value).                     *)
(***************************************************************************)
EXTENDS Integers, Sequences, FiniteSets, TLC

VARIABLES
    serverSettings,  \* the module-level registry cache: [servers |-> <<record, ...>>]
    settingsFile,    \* content of the registry file SETTINGS_PATH
    externalFile,    \* content of the file named by MCP_SETTINGS_PATH
    envPath,         \* TRUE iff process.env.MCP_SETTINGS_PATH is set
    connected,       \* TRUE once server.connect(transport) has returned
    disk,            \* what installs have left on disk: clone directories and wrapper scripts;
                     \* and the registry.json of MCPAutoInstallServer
    last             \* the last handler call: its name, arguments, result, I/O and the state before it

vars == <<serverSettings, settingsFile, externalFile, envPath, connected, disk, last>>

----------------------------------------------------------------------------
(* Optional values and JavaScript truthiness *)

None == <<>>

Some(v) == <<v>>

\* `!!x` for an optional string: undefined and "" are falsy.
Truthy(opt) == opt # None /\ opt[1] # ""

----------------------------------------------------------------------------
(* Strings *)

\* String.prototype.includes
Includes(s, f) ==
    \E i \in 1..(Len(s) - Len(f) + 1) : SubSeq(s, i, i + Len(f) - 1) = f

\* First position at which f occurs in s, 0 when it does not.
IndexOf(s, f) ==
    IF Includes(s, f)
    THEN CHOOSE i \in 1..(Len(s) - Len(f) + 1) :
            /\ SubSeq(s, i, i + Len(f) - 1) = f
            /\ \A j \in 1..(i - 1) : SubSeq(s, j, j + Len(f) - 1) # f
    ELSE 0

\* s.replace(f, r) with a string pattern: the first occurrence only.
ReplaceFirst(s, f, r) ==
    LET i == IndexOf(s, f)
    IN  IF i = 0 THEN s
        ELSE SubSeq(s, 1, i - 1) \o r \o SubSeq(s, i + Len(f), Len(s))

\* s.split("/") and its last element.
LastSegment(s) ==
    LET slashes == {i \in 1..Len(s) : SubSeq(s, i, i) = "/"}
    IN  IF slashes = {} THEN s
        ELSE LET k == CHOOSE i \in slashes : \A j \in slashes : j <= i
             IN  SubSeq(s, k + 1, Len(s))

----------------------------------------------------------------------------
(* Files: a file is missing, holds text that is not JSON, or holds JSON *)

MissingFile == [kind |-> "missing", value |-> <<>>]

MalformedFile == [kind |-> "malformed", value |-> <<>>]

\* JSON.stringify(v, null, 2) written with fs.writeFile
JSONstringify(v) == [kind |-> "json", value |-> v]

\* fs.readFile followed by JSON.parse: throws unless the file holds JSON
ReadThrows(file) == file.kind # "json"

JSONparse(file) == file.value

----------------------------------------------------------------------------
(* The world a handler runs in: the registry cache, the two files, and the *)
(* file I/O it has performed since the handler was entered.                *)

World(mem, file, ext) ==
    [mem |-> mem, file |-> file, ext |-> ext,
     regReads |-> 0, regWrites |-> 0, regFails |-> 0,
     extReads |-> 0, extWrites |-> 0, extFails |-> 0]

\* Outcome of a handler: the world it leaves, what it returned, whether it threw.
Outcome(w, success, threw, found) ==
    [w |-> w, success |-> success, threw |-> threw, found |-> found]

\* saveSettings: mkdir + writeFile of the whole cache; any failure is rethrown.
\* `ok` is whether the file system accepts the write.
saveSettings(w, ok) ==
    IF ok
    THEN [w |-> [w EXCEPT !.file = JSONstringify(w.mem), !.regWrites = @ + 1],
          threw |-> FALSE]
    ELSE [w |-> [w EXCEPT !.regWrites = @ + 1, !.regFails = @ + 1],
          threw |-> TRUE]

\* A load that kept the cache it had when the file could not be read.
initSettingsKeepingCache(w, ok) ==
    LET r == [w EXCEPT !.regReads = @ + 1]
    IN  IF ~ReadThrows(r.file)
        THEN [r EXCEPT !.mem = JSONparse(r.file)]
        ELSE saveSettings(r, ok).w

\* initSettings: reload the cache from the file; when the file cannot be read
\* or parsed the cache is reset to empty and saved. Nothing is rethrown.
initSettings(w, ok) ==
    LET r == [w EXCEPT !.regReads = @ + 1]
    IN  IF ~ReadThrows(r.file)
        THEN [r EXCEPT !.mem = JSONparse(r.file)]
        ELSE saveSettings([r EXCEPT !.mem = [servers |-> <<>>]], ok).w

\* Array.prototype.findIndex with an exact-name predicate; 0 stands for -1.
FindIndexByName(servers, name) ==
    IF \E i \in 1..Len(servers) : servers[i].name = name
    THEN CHOOSE i \in 1..Len(servers) :
            /\ servers[i].name = name
            /\ \A j \in 1..(i - 1) : servers[j].name # name
    ELSE 0

\* A findServer that matched names exactly.
NameMatchesExactly(recordName, name) == recordName = name

\* The predicate findServer passes to Array.prototype.find.
NameMatches(recordName, name) == Includes(recordName, name)

\* A find that fell back on the first record when no name matched.
FindIndexOrFirst(servers, name) ==
    IF \E i \in 1..Len(servers) : NameMatches(servers[i].name, name)
    THEN CHOOSE i \in 1..Len(servers) :
            /\ NameMatches(servers[i].name, name)
            /\ \A j \in 1..(i - 1) : ~NameMatches(servers[j].name, name)
    ELSE IF Len(servers) > 0 THEN 1 ELSE 0

\* A find that took the last record whose name matches.
FindIndexOfLastMatch(servers, name) ==
    IF \E i \in 1..Len(servers) : NameMatches(servers[i].name, name)
    THEN CHOOSE i \in 1..Len(servers) :
            /\ NameMatches(servers[i].name, name)
            /\ \A j \in (i + 1)..Len(servers) : ~NameMatches(servers[j].name, name)
    ELSE 0

\* Array.prototype.find with findServer's predicate; 0 stands for undefined.
FindIndexByFragment(servers, name) ==
    IF \E i \in 1..Len(servers) : NameMatches(servers[i].name, name)
    THEN CHOOSE i \in 1..Len(servers) :
            /\ NameMatches(servers[i].name, name)
            /\ \A j \in 1..(i - 1) : ~NameMatches(servers[j].name, name)
    ELSE 0

\* findServer: reload, then the first record whose name includes `name`.
findServer(w, name, ok) ==
    LET r == initSettings(w, ok)
    IN  [w |-> r, index |-> FindIndexByFragment(r.mem.servers, name)]

\* A filter that dropped every record whose name contains the argument.
RECURSIVE FilterOutFragment(_, _)
FilterOutFragment(servers, name) ==
    IF servers = <<>> THEN <<>>
    ELSE IF ~Includes(Head(servers).name, name)
         THEN <<Head(servers)>> \o FilterOutFragment(Tail(servers), name)
         ELSE FilterOutFragment(Tail(servers), name)

\* Array.prototype.filter
RECURSIVE FilterOutName(_, _)
FilterOutName(servers, name) ==
    IF servers = <<>> THEN <<>>
    ELSE IF Head(servers).name # name
         THEN <<Head(servers)>> \o FilterOutName(Tail(servers), name)
         ELSE FilterOutName(Tail(servers), name)

\* A register that merged fields: what the argument omits is kept.
UpsertMerging(servers, serverInfo) ==
    LET existingIndex == FindIndexByName(servers, serverInfo.name)
        Keep(new, old) == IF new # None THEN new ELSE old
    IN  IF existingIndex # 0
        THEN [servers EXCEPT ![existingIndex] =
                [serverInfo EXCEPT
                    !.readme = Keep(@, servers[existingIndex].readme),
                    !.commandConfig = Keep(@, servers[existingIndex].commandConfig),
                    !.installCommands = Keep(@, servers[existingIndex].installCommands)]]
        ELSE Append(servers, serverInfo)

\* A register that pushed without looking for the name.
UpsertPushing(servers, serverInfo) == Append(servers, serverInfo)

\* The registry after handleRegisterServer's findIndex / assign-or-push.
Upsert(servers, serverInfo) ==
    LET existingIndex == FindIndexByName(servers, serverInfo.name)
    IN  IF existingIndex # 0
        THEN [servers EXCEPT ![existingIndex] = serverInfo]
        ELSE Append(servers, serverInfo)

handleRegisterServer(w, serverInfo, ok) ==
    LET w1 == [w EXCEPT !.mem.servers = Upsert(w.mem.servers, serverInfo)]
        s  == saveSettings(w1, ok)
    IN  IF s.threw
        THEN Outcome(s.w, FALSE, TRUE, None)
        ELSE Outcome(s.w, TRUE, FALSE, None)

handleRemoveServer(w, serverName, ok) ==
    LET initialLength == Len(w.mem.servers)
        w1 == [w EXCEPT !.mem.servers = FilterOutName(w.mem.servers, serverName)]
    IN  IF Len(w1.mem.servers) = initialLength
        THEN Outcome(w1, FALSE, FALSE, None)
        ELSE LET s == saveSettings(w1, ok)
             IN  IF s.threw
                 THEN Outcome(s.w, FALSE, TRUE, None)
                 ELSE Outcome(s.w, TRUE, FALSE, None)

\* handleGetServerReadme: findServer, then the record's readme.
handleGetServerReadme(w, serverName, ok) ==
    LET f == findServer(w, serverName, ok)
    IN  IF f.index = 0
        THEN Outcome(f.w, FALSE, FALSE, None)
        ELSE Outcome(f.w, TRUE, FALSE, Some(f.w.mem.servers[f.index]))

----------------------------------------------------------------------------
(* Discovery *)

SdkName == "@modelcontextprotocol/sdk"

\* The MCPServerInfo preloadMCPPackages builds from one npxFinder package.
ServerInfoOfPackage(pkg) ==
    LET serverName == LastSegment(pkg.name)
        serverType == ReplaceFirst(serverName, "mcp-", "")
    IN  [name |-> pkg.name,
         repo |-> IF Truthy(pkg.repository) THEN pkg.repository[1] ELSE "",
         command |-> "npx " \o pkg.name,
         description |-> IF Truthy(pkg.description) THEN pkg.description[1]
                         ELSE "MCP " \o serverType \o " server",
         keywords |-> (IF pkg.keywords # None THEN pkg.keywords[1] ELSE <<>>)
                      \o <<serverType, "mcp">>,
         installCommands |-> None,
         commandConfig |-> None,
         readme |-> IF Truthy(pkg.readme) THEN pkg.readme ELSE None]

\* A merge that took the discovered readme whenever there is one.
MergePackageOverwriting(servers, pkg) ==
    IF pkg.name = "" \/ pkg.name = SdkName
    THEN servers
    ELSE LET serverInfo == ServerInfoOfPackage(pkg)
             existing == FindIndexByName(servers, pkg.name)
         IN  IF existing = 0
             THEN Append(servers, serverInfo)
             ELSE IF Truthy(serverInfo.readme)
                  THEN [servers EXCEPT ![existing].readme = serverInfo.readme]
                  ELSE servers

\* One iteration of preloadMCPPackages' loop over the packages.
MergePackage(servers, pkg) ==
    IF pkg.name = "" \/ pkg.name = SdkName
    THEN servers
    ELSE LET serverInfo == ServerInfoOfPackage(pkg)
             existing == FindIndexByName(servers, pkg.name)
         IN  IF existing = 0
             THEN Append(servers, serverInfo)
             ELSE IF Truthy(serverInfo.readme) /\ ~Truthy(servers[existing].readme)
                  THEN [servers EXCEPT ![existing].readme = serverInfo.readme]
                  ELSE servers

\* A loop that looked each package up in the registry as it was before the
\* loop, so that a new name occurring twice is pushed twice.
RECURSIVE MergePackagesFrom(_, _, _)
MergePackagesFrom(loaded, servers, packages) ==
    IF packages = <<>> THEN servers
    ELSE LET pkg == Head(packages)
         IN  IF pkg.name = "" \/ pkg.name = SdkName
             THEN MergePackagesFrom(loaded, servers, Tail(packages))
             ELSE IF FindIndexByName(loaded, pkg.name) = 0
             THEN MergePackagesFrom(loaded, Append(servers, ServerInfoOfPackage(pkg)),
                                    Tail(packages))
             ELSE MergePackagesFrom(loaded, MergePackage(servers, pkg), Tail(packages))

MergePackagesAgainstLoaded(servers, packages) ==
    MergePackagesFrom(servers, servers, packages)

\* preloadMCPPackages' loop over the packages npxFinder returned.
RECURSIVE MergePackages(_, _)
MergePackages(servers, packages) ==
    IF packages = <<>> THEN servers
    ELSE MergePackages(MergePackage(servers, Head(packages)), Tail(packages))

\* A preload without the outer try/catch: npxFinder's failure is rethrown.
preloadRethrowing(w, finder, ok) ==
    IF finder.failed
    THEN [w |-> w, threw |-> TRUE]
    ELSE [w |-> saveSettings(
                  [w EXCEPT !.mem.servers =
                      MergePackages(w.mem.servers, finder.packages)],
                  ok).w,
          threw |-> FALSE]

\* preloadMCPPackages: `finder` is what npxFinder did, [failed, packages].
\* Every error, the final saveSettings' included, is swallowed.
preloadMCPPackages(w, finder, ok) ==
    IF finder.failed
    THEN [w |-> w, threw |-> FALSE]
    ELSE [w |-> saveSettings(
                  [w EXCEPT !.mem.servers =
                      MergePackages(w.mem.servers, finder.packages)],
                  ok).w,
          threw |-> FALSE]

\* startServer: initSettings, preloadMCPPackages, then connect the transport;
\* it has no try/catch, so the transport is connected only if nothing threw.
startServer(w, finder, ok) ==
    LET p == preloadMCPPackages(initSettings(w, ok), finder, ok)
    IN  Outcome(p.w, ~p.threw, p.threw, None)

----------------------------------------------------------------------------
(* The external configuration file *)

\* The entry saveCommandToExternalConfig stores for a server.
CommandEntry(command, args, env) ==
    [command |-> command, args |-> args,
     env |-> IF env # None THEN env ELSE Some({})]

\* An update that rebuilt the document from the new entry alone.
SetOnlyServerEntry(config, serverName, entry) ==
    [unrelated |-> {}, mcpServers |-> Some([k \in {serverName} |-> entry])]

\* config.mcpServers[serverName] = entry, after `if (!config.mcpServers)`.
SetServerEntry(config, serverName, entry) ==
    LET old == IF config.mcpServers # None THEN config.mcpServers[1]
               ELSE [k \in {} |-> entry]
    IN  [config EXCEPT !.mcpServers =
            Some([k \in DOMAIN old \cup {serverName} |->
                    IF k = serverName THEN entry ELSE old[k]])]

\* A guard that let the handler go on without a path.
PathNeverMissing(pathSet) == FALSE

\* `!externalConfigPath`, for process.env.MCP_SETTINGS_PATH: the test both
\* reconciler handlers make before they touch a file.
PathMissing(pathSet) == ~pathSet

saveCommandToExternalConfig(w, pathSet, serverName, command, args, env, ok, extOk) ==
    IF command = ""
    THEN Outcome(w, FALSE, FALSE, None)
    ELSE IF PathMissing(pathSet)
    THEN Outcome(w, FALSE, FALSE, None)
    ELSE LET f == findServer(w, serverName, ok)
         IN  IF f.index = 0
             THEN Outcome(f.w, FALSE, FALSE, None)
             ELSE LET r == [f.w EXCEPT !.extReads = @ + 1]
                  IN  IF ReadThrows(r.ext)
                      THEN Outcome(r, FALSE, FALSE, None)
                      ELSE IF ~extOk
                      THEN Outcome([r EXCEPT !.extWrites = @ + 1, !.extFails = @ + 1],
                                   FALSE, FALSE, None)
                      ELSE LET entry == CommandEntry(command, args, env)
                               w1 == [r EXCEPT
                                        !.ext = JSONstringify(
                                            SetServerEntry(JSONparse(r.ext), serverName, entry)),
                                        !.extWrites = @ + 1,
                                        !.mem.servers[f.index].commandConfig = Some(entry)]
                               s == saveSettings(w1, ok)
                           IN  Outcome(s.w, ~s.threw, FALSE, None)

(* parseConfig: the values of the user's JSON text. A value carries its    *)
(* JSON type, so that a test on the type and a test on truthiness differ.  *)

JSONString(text) == [type |-> "string", text |-> text, items |-> <<>>]

JSONNumber(text) == [type |-> "number", text |-> text, items |-> <<>>]

JSONArray(items) == [type |-> "array", text |-> "", items |-> items]

\* A property the object does not have.
JSONUndefined == [type |-> "undefined", text |-> "", items |-> <<>>]

\* JavaScript's truthiness of a JSON value, as `!value` tests it.
JSONTruthy(v) ==
    CASE v.type = "string" -> v.text # ""
      [] v.type = "number" -> v.text # "0"
      [] v.type = "array" -> TRUE
      [] OTHER -> FALSE

\* Array.isArray
IsArray(v) == v.type = "array"

\* `!config.command || !Array.isArray(config.args)`
RejectsEntry(config) == ~JSONTruthy(config.command) \/ ~IsArray(config.args)

\* Position of the first entry, in Object.entries order, at which the
\* validation loop stops: an entry that is null (reading its command throws)
\* or one the test rejects. 0 when the loop runs to its end.
FirstStop(entries) ==
    LET stops == {i \in 1..Len(entries) :
                    entries[i].config.null \/ RejectsEntry(entries[i].config)}
    IN  IF stops = {} THEN 0
        ELSE CHOOSE i \in stops : \A j \in stops : i <= j

\* An entry as JSON.stringify writes it and a later JSON.parse reads it; a
\* command that is not a string is kept by its JSON text.
WrittenEntry(config) ==
    [command |-> config.command.text, args |-> config.args.items, env |-> config.env]

\* A merge that kept the user's entries alone.
MergeConfigReplacing(existingConfig, entries) ==
    [unrelated |-> {},
     mcpServers |-> Some([k \in {entries[i].name : i \in 1..Len(entries)} |->
        WrittenEntry(entries[CHOOSE i \in 1..Len(entries) : entries[i].name = k].config)])]

\* {...existingConfig, mcpServers: {...(existingConfig.mcpServers || {}),
\*                                  ...userConfig.mcpServers}}
MergeConfig(existingConfig, entries) ==
    LET old == IF existingConfig.mcpServers # None THEN existingConfig.mcpServers[1]
               ELSE <<>>
        names == {entries[i].name : i \in 1..Len(entries)}
    IN  [existingConfig EXCEPT !.mcpServers =
            Some([k \in DOMAIN old \cup names |->
                    IF k \in names
                    THEN WrittenEntry(entries[CHOOSE i \in 1..Len(entries) :
                                                 entries[i].name = k].config)
                    ELSE old[k]])]

\* What handleParseConfig returns: an outcome and, when its message names a
\* server, that server's name.
ParseOutcome(w, success, named) ==
    Outcome(w, success, FALSE, None) @@ [named |-> named]

handleParseConfig(w, pathSet, config, extOk) ==
    IF config.kind # "json"
    THEN ParseOutcome(w, FALSE, None)
    ELSE LET entries == IF config.mcpServers # None THEN config.mcpServers[1] ELSE <<>>
             stop == FirstStop(entries)
         IN  IF stop # 0
             THEN IF entries[stop].config.null
                  THEN ParseOutcome(w, FALSE, None)
                  ELSE ParseOutcome(w, FALSE, Some(entries[stop].name))
             ELSE IF PathMissing(pathSet)
             THEN ParseOutcome(w, FALSE, None)
             ELSE LET r == [w EXCEPT !.extReads = @ + 1]
                      existingConfig == IF ReadThrows(r.ext)
                                        THEN [unrelated |-> {}, mcpServers |-> None]
                                        ELSE JSONparse(r.ext)
                  IN  IF ~extOk
                      THEN ParseOutcome([r EXCEPT !.extWrites = @ + 1,
                                                  !.extFails = @ + 1], FALSE, None)
                      ELSE ParseOutcome(
                              [r EXCEPT !.ext = JSONstringify(
                                                   MergeConfig(existingConfig, entries)),
                                        !.extWrites = @ + 1],
                              TRUE, None)

----------------------------------------------------------------------------
(* Installing a server. The repository holds two installers: the function  *)
(* handleInstallServer the CLI calls, which looks its record up in         *)
(* `serverSettings`, and the class MCPAutoInstallServer, which keeps a     *)
(* registry of its own, a map from names to records.                       *)

Char(s, i) == SubSeq(s, i, i)

EndsWith(s, f) == Len(f) <= Len(s) /\ SubSeq(s, Len(s) - Len(f) + 1, Len(s)) = f

Whitespace == {" ", "\n"}

\* String.prototype.trim
RECURSIVE Trim(_)
Trim(s) ==
    IF s = "" THEN s
    ELSE IF Char(s, 1) \in Whitespace THEN Trim(SubSeq(s, 2, Len(s)))
    ELSE IF Char(s, Len(s)) \in Whitespace THEN Trim(SubSeq(s, 1, Len(s) - 1))
    ELSE s

\* A match of /github\.com[\/:]([^\/]+)\/([^\/\.]+)(\.git)?/ that starts at
\* position i of url: `owner/repo` of its two groups, or no match.
GitHubMatchAt(url, i) ==
    LET n == Len(url)
        slashes == {j \in (i + 12)..n : Char(url, j) = "/"}
    IN  IF \/ i + 11 > n
           \/ SubSeq(url, i, i + 9) # "github.com"
           \/ Char(url, i + 10) \notin {"/", ":"}
           \/ Char(url, i + 11) = "/"
           \/ slashes = {}
        THEN None
        ELSE LET j == CHOOSE x \in slashes : \A y \in slashes : x <= y
                 stops == {k \in (j + 1)..n : Char(url, k) \in {"/", "."}}
                 end == IF stops = {} THEN n
                        ELSE (CHOOSE x \in stops : \A y \in stops : x <= y) - 1
             IN  IF end < j + 1 THEN None
                 ELSE Some(SubSeq(url, i + 11, j - 1) \o "/" \o SubSeq(url, j + 1, end))

\* extractGitHubPathFromUrl: the leftmost match, null when there is none.
extractGitHubPathFromUrl(url) ==
    LET starts == {i \in 1..Len(url) : GitHubMatchAt(url, i) # None}
    IN  IF starts = {} THEN None
        ELSE GitHubMatchAt(url, CHOOSE x \in starts : \A y \in starts : x <= y)

\* A search of the index that looked at the names before the links.
MatchingPackageByNameFirst(packages, repoPath) ==
    LET byLink == {i \in 1..Len(packages) :
                     /\ packages[i].repository # None
                     /\ Includes(packages[i].repository[1], repoPath)}
        byName == {i \in 1..Len(packages) :
                     EndsWith(packages[i].name, "/" \o LastSegment(repoPath))}
        first(S) == CHOOSE x \in S : \A y \in S : x <= y
    IN  IF byName # {} THEN Some(packages[first(byName)].name)
        ELSE IF byLink # {} THEN Some(packages[first(byLink)].name)
        ELSE None

\* Array.prototype.find over the packages of the index: the first package
\* whose repository link contains repoPath, else the first whose name ends
\* with /repo.
MatchingPackage(packages, repoPath) ==
    LET byLink == {i \in 1..Len(packages) :
                     /\ packages[i].repository # None
                     /\ Includes(packages[i].repository[1], repoPath)}
        byName == {i \in 1..Len(packages) :
                     EndsWith(packages[i].name, "/" \o LastSegment(repoPath))}
        first(S) == CHOOSE x \in S : \A y \in S : x <= y
    IN  IF byLink # {} THEN Some(packages[first(byLink)].name)
        ELSE IF byName # {} THEN Some(packages[first(byName)].name)
        ELSE None

\* A resolution that took the last segment of whatever URL it was given.
getPackageNameFromAnyUrl(repoUrl, cli, finder) ==
    Some("@modelcontextprotocol/" \o ReplaceFirst(LastSegment(repoUrl), ".git", ""))

\* getPackageNameFromRepo. `cli` is the stdout of `npx npx-scope-finder find`
\* (none when the command fails), `finder` the answer of npxFinder.
getPackageNameFromRepo(repoUrl, cli, finder) ==
    IF cli # None /\ Trim(cli[1]) # ""
    THEN Some(Trim(cli[1]))
    ELSE LET repoPath == extractGitHubPathFromUrl(repoUrl)
         IN  IF repoPath = None
             THEN IF Includes(repoUrl, "/")
                  THEN Some("@modelcontextprotocol/"
                                \o ReplaceFirst(LastSegment(repoUrl), ".git", ""))
                  ELSE None
             ELSE LET found == IF finder.failed THEN None
                               ELSE MatchingPackage(finder.packages, repoPath[1])
                  IN  IF found # None THEN found
                      ELSE Some("@modelcontextprotocol/" \o LastSegment(repoPath[1]))

\* The message of the error a failing child process is rejected with.
ErrorText(command) == "Command failed: " \o command

\* A runner that went on after a failing command.
ExecContinuing(commands, failAt) ==
    [steps |-> commands,
     failure |-> IF failAt \in 1..Len(commands) THEN Some(commands[failAt]) ELSE None]

\* A run of awaited exec calls, one after the other. The failAt-th command,
\* if there is one, fails: its rejection leaves the run.
Exec(commands, failAt) ==
    IF failAt \in 1..Len(commands)
    THEN [steps |-> SubSeq(commands, 1, failAt), failure |-> Some(commands[failAt])]
    ELSE [steps |-> commands, failure |-> None]

\* `cd ${dir} && ${cmd}` for each custom command
InDirectory(dir, cmds) == [i \in 1..Len(cmds) |-> "cd " \o dir \o " && " \o cmds[i]]

\* The disk before any install and before MCPAutoInstallServer has written
\* its registry.json.
EmptyDisk == [dirs |-> {}, scripts |-> <<>>, registry |-> MissingFile]

\* What an install returns and leaves: the commands it ran, the installPath
\* of its result, the error text its result carries, and the command of the
\* clone strategy that failed, if one did.
InstallOutcome(w, d, success, steps, installPath, errorText, cloneFailure) ==
    Outcome(w, success, FALSE, None)
        @@ [disk |-> d, steps |-> steps, installPath |-> installPath,
            errorText |-> errorText, cloneFailure |-> cloneFailure]

\* A package runner whose output on stderr counted as a failure.
RunnerFailedOnStderr(run, stderr) == run.failure # None \/ stderr # ""

\* `const { stdout, stderr } = await exec(...)`: the await throws when the
\* child process is rejected, whatever it wrote to stderr.
RunnerFailed(run, stderr) == run.failure # None

\* git clone refuses a target directory that exists and is not empty.
CloneFailAt(d, cloneDir, failAt) == IF cloneDir \in d.dirs THEN 1 ELSE failAt

\* The clone directory after a run whose first command is the clone.
AfterClone(dirs, cloneDir, run) ==
    IF run.failure # None /\ Len(run.steps) = 1 THEN dirs ELSE dirs \cup {cloneDir}

handleInstallServer(w, d, serverName, useNpx, env, ok) ==
    LET f == findServer(w, serverName, ok)
    IN  IF f.index = 0
        THEN InstallOutcome(f.w, d, FALSE, <<>>, None, None, None)
        ELSE LET server == f.w.mem.servers[f.index]
             IN  IF useNpx
                 THEN LET resolve == <<"npx npx-scope-finder find " \o server.repo>>
                          packageName == getPackageNameFromRepo(server.repo, env.cli,
                                                                env.finder)
                      IN  IF packageName = None
                          THEN InstallOutcome(f.w, d, FALSE, resolve, None,
                                   Some("Could not determine package name for "
                                            \o server.repo), None)
                          ELSE LET run == Exec(<<"npx " \o packageName[1]>>, env.failAt)
                               IN  IF RunnerFailed(run, env.stderr)
                                   THEN InstallOutcome(f.w, d, FALSE, resolve \o run.steps,
                                            None,
                                            Some(ErrorText(run.steps[Len(run.steps)])),
                                            None)
                                   ELSE InstallOutcome(f.w, d, TRUE, resolve \o run.steps,
                                            None, Some(env.stderr), None)
                 ELSE LET segment == ReplaceFirst(LastSegment(server.repo), ".git", "")
                          repoName == IF segment # "" THEN segment ELSE serverName
                          cloneDir == "~/.mcp/servers/" \o repoName
                          custom == IF server.installCommands # None
                                    THEN server.installCommands[1] ELSE <<>>
                          commands == <<"git clone " \o server.repo \o " " \o cloneDir,
                                        "cd " \o cloneDir \o " && npm install">>
                                          \o InDirectory(cloneDir, custom)
                          run == Exec(commands, CloneFailAt(d, cloneDir, env.failAt))
                          d1 == [d EXCEPT !.dirs = AfterClone(@, cloneDir, run)]
                      IN  IF ~env.fsOk
                          THEN InstallOutcome(f.w, d, FALSE, <<>>, None,
                                              Some("EACCES: permission denied, mkdir"), None)
                          ELSE IF run.failure # None
                          THEN InstallOutcome(f.w, d1, FALSE, run.steps, None,
                                   Some(ErrorText(run.failure[1])), run.failure)
                          ELSE InstallOutcome(f.w, d1, TRUE, run.steps, Some(cloneDir),
                                              None, None)

\* The record MCPAutoInstallServer.loadRegistry builds for a package.
ClassServerInfo(pkg) ==
    [repo |-> IF Truthy(pkg.repository) THEN pkg.repository[1]
              ELSE "https://www.npmjs.com/package/" \o pkg.name,
     command |-> pkg.bin[1],
     description |-> IF Truthy(pkg.description) THEN pkg.description[1]
                     ELSE "MCP server: " \o pkg.name,
     keywords |-> IF pkg.keywords # None THEN pkg.keywords[1] ELSE <<>>]

\* A load that filled a new registry with nothing.
ClassPopulateNothing(servers, packages) == servers

\* The loop of loadRegistry over the packages of the index: a package with a
\* bin entry is stored under its name without the scope, a later package
\* replacing an earlier one of the same name.
RECURSIVE ClassPopulate(_, _)
ClassPopulate(servers, packages) ==
    IF packages = <<>> THEN servers
    ELSE LET pkg == Head(packages)
             serverName == ReplaceFirst(pkg.name, "@modelcontextprotocol/", "")
         IN  ClassPopulate(
                 IF Len(pkg.bin) > 0
                 THEN [n \in DOMAIN servers \cup {serverName} |->
                          IF n = serverName THEN ClassServerInfo(pkg) ELSE servers[n]]
                 ELSE servers,
                 Tail(packages))

\* MCPAutoInstallServer.saveRegistry: writeFileSync, its error swallowed.
saveRegistry(registry, file, ok) == IF ok THEN JSONstringify(registry) ELSE file

\* MCPAutoInstallServer.loadRegistry: the registry the object holds after it
\* and the registry.json it leaves. An existing file is parsed, the empty
\* registry standing in for one that cannot be; without a file the registry
\* is filled from the package index and saved.
loadRegistry(file, finder, ok) ==
    IF file.kind = "json"
    THEN [registry |-> JSONparse(file), file |-> file]
    ELSE IF file.kind = "malformed"
    THEN [registry |-> <<>>, file |-> file]
    ELSE LET registry == IF finder.failed THEN <<>>
                         ELSE ClassPopulate(<<>>, finder.packages)
         IN  [registry |-> registry, file |-> saveRegistry(registry, file, ok)]

\* The wrapper script installServer writes for a package.
WrapperScript(serverName, npmPackage) ==
    [body |-> "#!/usr/bin/env bash\n# Auto-generated script to run " \o serverName
                 \o " MCP server\nnpx " \o npmPackage \o " \"$@\"\n",
     mode |-> "755"]

\* MCPAutoInstallServer.installServer. `binOk` and `tmpOk` are whether the
\* file system takes the writes under configDir/bin and under tempInstallDir.
installServer(d, serverName, serverInfo, useNpx, env) ==
    LET npmPackage == "@modelcontextprotocol/" \o serverName
        probe == "npx " \o npmPackage \o " --help || npx " \o npmPackage
                    \o " -h || npx " \o npmPackage \o " --version || npx "
                    \o npmPackage \o " -v || true"
        scriptPath == "~/.mcp-auto-install/bin/" \o serverInfo.command
        tried == IF useNpx THEN <<probe>> ELSE <<>>
        serverDir == "/tmp/mcp-auto-install/" \o serverName
        custom == IF serverInfo.installCommands # None
                  THEN serverInfo.installCommands[1] ELSE <<>>
        commands == <<"git clone " \o serverInfo.repo \o " " \o serverDir>>
                      \o (IF Len(custom) > 0
                          THEN InDirectory(serverDir, custom)
                          ELSE InDirectory(serverDir,
                                   <<"npm install", "npm run build", "npm install -g">>))
        run == Exec(commands, env.failAt - Len(tried))
        removed == [d EXCEPT !.dirs = @ \ {serverDir}]
    IN  IF useNpx /\ Exec(tried, env.failAt).failure = None /\ env.binOk
        THEN [disk |-> [d EXCEPT !.scripts =
                            [q \in DOMAIN @ \cup {scriptPath} |->
                                IF q = scriptPath
                                THEN WrapperScript(serverName, npmPackage) ELSE @[q]]],
              steps |-> tried, errorText |-> None, cloneFailure |-> None]
        ELSE IF ~env.tmpOk
        THEN [disk |-> d, steps |-> tried,
              errorText |-> Some("EACCES: permission denied"), cloneFailure |-> None]
        ELSE [disk |-> [removed EXCEPT !.dirs = AfterClone(@, serverDir, run)],
              steps |-> tried \o run.steps,
              errorText |-> IF run.failure # None THEN Some(ErrorText(run.failure[1]))
                            ELSE None,
              cloneFailure |-> run.failure]

\* MCPAutoInstallServer.handleInstallServer, on the registry the object holds.
ClassHandleInstallServer(w, registry, d, serverName, useNpx, env) ==
    IF serverName \notin DOMAIN registry
    THEN InstallOutcome(w, d, FALSE, <<>>, None, None, None)
    ELSE LET r == installServer(d, serverName, registry[serverName], useNpx, env)
         IN  InstallOutcome(w, r.disk, r.errorText = None, r.steps, None, r.errorText,
                            r.cloneFailure)

----------------------------------------------------------------------------
(* The values the handlers are called with *)

\* Longest package list npxFinder returns.
MaxPackages == 2

FooName == "foo"

ScopedName == "@scope/mcp-foo"

Names == {FooName, ScopedName}

\* Arguments of find, remove and saveCommand: two names, a proper fragment of
\* one name, and a string that no name contains.
Fragments == Names \cup {"mcp", "zzz"}

NoEnv == {}

DebugEnv == {<<"DEBUG", "true">>}

\* A record as the CLI's register command builds it: no readme, no commandConfig.
PlainRecord(name) ==
    [name |-> name, repo |-> "https://github.com/o/" \o LastSegment(name),
     command |-> "run", description |-> "plain", keywords |-> <<>>,
     installCommands |-> None, commandConfig |-> None, readme |-> None]

\* A record with every optional field present.
FullRecord(name) ==
    [name |-> name, repo |-> "", command |-> "node", description |-> "full",
     keywords |-> <<"k">>, installCommands |-> Some(<<"make">>),
     commandConfig |-> Some(CommandEntry("node", <<"x">>, Some(DebugEnv))),
     readme |-> Some("R1")]

RegisterArgs == {PlainRecord(n) : n \in Names} \cup {FullRecord(n) : n \in Names}

Package(name, repository, description, keywords, readme) ==
    [name |-> name, repository |-> repository, description |-> description,
     keywords |-> keywords, readme |-> readme]

Packages ==
    { Package(ScopedName, Some("https://github.com/o/mcp-foo"), Some("found"),
              Some(<<"kw">>), Some("R2")),
      Package(ScopedName, None, None, None, Some("")),
      Package(FooName, None, Some(""), None, Some("R3")),
      Package(SdkName, None, None, None, Some("R2")),
      Package("", None, None, None, None) }

PackageLists == UNION {[1..n -> Packages] : n \in 0..MaxPackages}

FinderResults ==
    {[failed |-> TRUE, packages |-> <<>>]}
        \cup {[failed |-> FALSE, packages |-> l] : l \in PackageLists}

CommandArgs ==
    { [command |-> "npx", args |-> <<"-y", "pkg">>, env |-> None],
      [command |-> "node", args |-> <<>>, env |-> Some(DebugEnv)],
      [command |-> "", args |-> <<>>, env |-> None] }

\* An entry of the user's mcpServers: an object, or null.
UserEntry(command, args, env) ==
    [null |-> FALSE, command |-> command, args |-> args, env |-> env]

NullEntry == [null |-> TRUE, command |-> JSONUndefined, args |-> JSONUndefined,
              env |-> None]

\* Entries the validation accepts.
AcceptedEntries ==
    { UserEntry(JSONString("npx"), JSONArray(<<"-y", "pkg">>), None),
      UserEntry(JSONString("node"), JSONArray(<<>>), Some(DebugEnv)),
      UserEntry(JSONNumber("1"), JSONArray(<<>>), None) }

\* Entries the validation does not accept: no command, an empty command,
\* args that is a string, no args, and null.
RefusedEntries ==
    { UserEntry(JSONUndefined, JSONArray(<<>>), None),
      UserEntry(JSONString(""), JSONArray(<<"-y">>), None),
      UserEntry(JSONString("npx"), JSONString("-y"), None),
      UserEntry(JSONString("npx"), JSONUndefined, None),
      NullEntry }

UserEntries == AcceptedEntries \cup RefusedEntries

\* Keys of the user's mcpServers: one the external files of Init hold, one new.
UserNames == {FooName, "b"}

NamedEntry(name, config) == [name |-> name, config |-> config]

\* The argument of parseConfig: text that is not JSON, JSON without
\* mcpServers, and mcpServers of no, one or two entries, where either entry
\* of two may be one the validation refuses.
UserConfigs ==
    { [kind |-> "malformed", mcpServers |-> None],
      [kind |-> "json", mcpServers |-> None],
      [kind |-> "json", mcpServers |-> Some(<<>>)] }
    \cup { [kind |-> "json", mcpServers |-> Some(<<NamedEntry(n, c)>>)] :
              n \in UserNames, c \in UserEntries }
    \cup { [kind |-> "json",
            mcpServers |-> Some(<<NamedEntry(FooName, c1), NamedEntry("b", c2)>>)] :
              c1 \in UserEntries, c2 \in UserEntries }

\* An external configuration document: the unrelated top-level keys it holds
\* and, when present, its mcpServers map.
Document(unrelated, mcpServers) == [unrelated |-> unrelated, mcpServers |-> mcpServers]

OtherEntry == [command |-> "x", args |-> <<>>, env |-> None]

InitialExternalFiles ==
    { MissingFile, MalformedFile,
      JSONstringify(Document({}, None)),
      JSONstringify(Document({<<"unrelated", 1>>},
                             Some([k \in {"a", FooName} |-> OtherEntry]))) }

InitialSettingsFiles ==
    { MissingFile, MalformedFile,
      JSONstringify([servers |-> <<>>]),
      JSONstringify([servers |-> <<PlainRecord(ScopedName)>>]),
      JSONstringify([servers |-> <<FullRecord(ScopedName), PlainRecord(FooName)>>]) }

\* A record with a repository to clone and custom install commands.
CustomRecord(name) ==
    [PlainRecord(name) EXCEPT !.installCommands = Some(<<"make", "make install">>)]

\* Registry files an install finds: none, and one whose first record has the
\* default install and whose second has custom commands.
InstallSettingsFiles ==
    { MissingFile,
      JSONstringify([servers |-> <<PlainRecord(FooName), CustomRecord(ScopedName)>>]) }

\* The registry an MCPAutoInstallServer object holds.
ClassRegistries ==
    { [n \in {FooName} |-> PlainRecord(FooName)],
      [n \in {FooName} |-> CustomRecord(FooName)] }

ClassNames == {FooName, "zzz"}

\* Largest position, among the commands of one install, of a command that fails.
MaxFailAt == 5

\* What the name-resolution tool prints and what the package index answers.
Resolutions ==
    { [cli |-> Some("@scope/mcp-foo\n"), finder |-> [failed |-> TRUE, packages |-> <<>>]],
      [cli |-> None, finder |-> [failed |-> TRUE, packages |-> <<>>]] }

\* Repository URLs, each with the owner/repo a reader takes from it when it
\* is a GitHub URL: https and ssh forms, a repository name with a dot, a URL
\* of another host, a GitHub URL without repository, a bare word and the
\* empty URL.
RepoUrls ==
    { [url |-> "https://github.com/o/foo", path |-> Some("o/foo")],
      [url |-> "git@github.com:o/foo.git", path |-> Some("o/foo")],
      [url |-> "https://github.com/o/x.y/tree", path |-> Some("o/x")],
      [url |-> "https://gitlab.com/o/foo.git", path |-> None],
      [url |-> "https://github.com/o", path |-> None],
      [url |-> "foo", path |-> None],
      [url |-> "", path |-> None] }

\* The stdout of `npx npx-scope-finder find <url>`; None when it failed.
CliOutputs == {None, Some(""), Some(" \n"), Some(" @scope/mcp-foo\n")}

\* Packages of the index: one that matches o/foo by its name alone, one
\* that matches it by its repository link alone, one that matches nothing.
ResolvePackages ==
    { Package("@modelcontextprotocol/foo", None, None, None, None),
      Package("@modelcontextprotocol/server-x", Some("git+https://github.com/o/foo.git"),
              None, None, None),
      Package("@other/bar", Some("https://github.com/p/bar"), None, None, None) }

ResolveFinders ==
    {[failed |-> TRUE, packages |-> <<>>]}
        \cup {[failed |-> FALSE, packages |-> l] :
                 l \in UNION {[1..n -> ResolvePackages] : n \in 0..MaxPackages}}

\* Registries whose records give no path: the record discovery stores for a
\* package without repository link, and a record registered with a bare word
\* for its repository.
NoRepoSettingsFiles ==
    { JSONstringify([servers |->
          <<[PlainRecord(FooName) EXCEPT !.repo = "local"],
            ServerInfoOfPackage(Package(ScopedName, None, None, None, None))>>]),
      JSONstringify([servers |->
          <<ServerInfoOfPackage(Package(ScopedName, None, None, None, None)),
            PlainRecord(FooName)>>]) }

\* What a package runner that ends without error may have written to stderr.
StderrTexts == {"", "npm WARN deprecated"}

\* The environment of an install through handleInstallServer: the name
\* resolution, the position of the command that fails (0: none does, and so
\* for a position past the last command), and whether mkdir succeeds. With
\* useNpx one command is run, and what it wrote to stderr is captured; mkdir
\* is called by the clone strategy alone.
InstallEnvs(useNpx) ==
    IF useNpx
    THEN { [cli |-> r.cli, finder |-> r.finder, failAt |-> k, fsOk |-> TRUE,
            stderr |-> e] : r \in Resolutions, k \in 0..1, e \in StderrTexts }
    ELSE { [cli |-> None, finder |-> [failed |-> TRUE, packages |-> <<>>],
            failAt |-> k, fsOk |-> TRUE] : k \in 0..MaxFailAt }
         \cup { [cli |-> None, finder |-> [failed |-> TRUE, packages |-> <<>>],
                 failAt |-> 0, fsOk |-> FALSE] }

\* The environment of an install through MCPAutoInstallServer; the bin
\* directory is written with useNpx alone.
ClassInstallEnvs(useNpx) ==
    { [failAt |-> k, binOk |-> TRUE, tmpOk |-> TRUE] : k \in 0..MaxFailAt }
    \cup { [failAt |-> 0, binOk |-> TRUE, tmpOk |-> FALSE] }
    \cup (IF useNpx THEN {[failAt |-> 0, binOk |-> FALSE, tmpOk |-> TRUE]} ELSE {})

\* A package as the index describes it to MCPAutoInstallServer.
ClassPackage(name, bin, repository, description) ==
    [name |-> name, bin |-> bin, repository |-> repository,
     description |-> description, keywords |-> None]

ClassPackages ==
    { ClassPackage("@modelcontextprotocol/foo", <<"mcp-foo">>,
                   Some("https://github.com/o/foo"), Some("found")),
      ClassPackage("@modelcontextprotocol/bar", <<"bar", "bar2">>, None, Some("")),
      ClassPackage("@modelcontextprotocol/sdk", <<>>, None, None) }

ClassFinderResults ==
    {[failed |-> TRUE, packages |-> <<>>]}
        \cup {[failed |-> FALSE, packages |-> l] :
                 l \in UNION {[1..n -> ClassPackages] : n \in 0..MaxPackages}}

\* The registry.json a new MCPAutoInstallServer finds.
ClassRegistryFiles ==
    { MissingFile, MalformedFile, JSONstringify(<<>>),
      JSONstringify(ClassPopulate(<<>>,
          <<ClassPackage("@modelcontextprotocol/baz", <<"baz">>, None, None)>>)) }

----------------------------------------------------------------------------
(* The state machine *)

NoCall == [op |-> "none", arg |-> <<>>, success |-> FALSE, threw |-> FALSE,
           found |-> None, pre |-> <<>>, io |-> <<>>]

\* What a handler call leaves in `last`.
Call(op, arg, pre, out) ==
    [op |-> op, arg |-> arg, success |-> out.success, threw |-> out.threw,
     found |-> out.found,
     pre |-> [mem |-> pre.mem, file |-> pre.file, ext |-> pre.ext],
     io |-> [regReads |-> out.w.regReads, regWrites |-> out.w.regWrites,
             regFails |-> out.w.regFails, extReads |-> out.w.extReads,
             extWrites |-> out.w.extWrites, extFails |-> out.w.extFails]]

Now == World(serverSettings, settingsFile, externalFile)

\* The state a handler's outcome leaves behind.
Apply(op, arg, out) ==
    /\ serverSettings' = out.w.mem
    /\ settingsFile' = out.w.file
    /\ externalFile' = out.w.ext
    /\ last' = Call(op, arg, Now, out)

\* A new process: the module is loaded afresh, the cache is empty.
NewProcess ==
    /\ last.op # "new"
    /\ serverSettings' = [servers |-> <<>>]
    /\ connected' = FALSE
    /\ last' = [NoCall EXCEPT !.op = "new"]
    /\ UNCHANGED <<settingsFile, externalFile, envPath, disk>>

\* `oks` is the set of outcomes the file system may give the registry writes
\* of the call, `extOks` that of the external file's writes.
StartServer(oks) ==
    \E finder \in FinderResults, ok \in oks :
        /\ ~connected
        /\ Apply("start", finder, startServer(Now, finder, ok))
        /\ connected' = ~startServer(Now, finder, ok).threw
        /\ UNCHANGED <<envPath, disk>>

Register(oks) ==
    \E serverInfo \in RegisterArgs, ok \in oks :
        /\ Apply("register", serverInfo, handleRegisterServer(Now, serverInfo, ok))
        /\ UNCHANGED <<envPath, connected, disk>>

Remove(oks) ==
    \E serverName \in Fragments, ok \in oks :
        /\ Apply("remove", serverName, handleRemoveServer(Now, serverName, ok))
        /\ UNCHANGED <<envPath, connected, disk>>

GetServerReadme(oks) ==
    \E serverName \in Fragments, ok \in oks :
        /\ Apply("readme", serverName, handleGetServerReadme(Now, serverName, ok))
        /\ UNCHANGED <<envPath, connected, disk>>

SaveCommand(oks, extOks) ==
    \E serverName \in Fragments, c \in CommandArgs, ok \in oks, extOk \in extOks :
        /\ Apply("saveCommand", [serverName |-> serverName, command |-> c.command,
                                 args |-> c.args, env |-> c.env],
                 saveCommandToExternalConfig(Now, envPath, serverName, c.command,
                                             c.args, c.env, ok, extOk))
        /\ UNCHANGED <<envPath, connected, disk>>

ParseConfig(extOks) ==
    \E config \in UserConfigs, extOk \in extOks :
        LET out == handleParseConfig(Now, envPath, config, extOk)
        IN  /\ serverSettings' = out.w.mem
            /\ settingsFile' = out.w.file
            /\ externalFile' = out.w.ext
            /\ last' = Call("parseConfig", config, Now, out) @@ [named |-> out.named]
            /\ UNCHANGED <<envPath, connected, disk>>

\* What an install call leaves in `last`.
InstallCall(op, arg, out) ==
    Call(op, arg, Now, out)
        @@ [steps |-> out.steps, installPath |-> out.installPath,
            errorText |-> out.errorText, cloneFailure |-> out.cloneFailure,
            preDisk |-> disk]

InstallServer(oks) ==
    \E serverName \in Fragments, useNpx \in BOOLEAN, ok \in oks :
      \E env \in InstallEnvs(useNpx) :
        LET out == handleInstallServer(Now, disk, serverName, useNpx, env, ok)
        IN  /\ serverSettings' = out.w.mem
            /\ settingsFile' = out.w.file
            /\ externalFile' = out.w.ext
            /\ disk' = out.disk
            /\ last' = InstallCall("install",
                           [serverName |-> serverName, useNpx |-> useNpx, env |-> env,
                            registry |-> <<>>], out)
            /\ UNCHANGED <<envPath, connected>>

ClassInstallServer ==
    \E registry \in ClassRegistries, serverName \in ClassNames, useNpx \in BOOLEAN :
      \E env \in ClassInstallEnvs(useNpx) :
        LET out == ClassHandleInstallServer(Now, registry, disk, serverName, useNpx, env)
        IN  /\ disk' = out.disk
            /\ last' = InstallCall("classInstall",
                           [serverName |-> serverName, useNpx |-> useNpx, env |-> env,
                            registry |-> registry], out)
            /\ UNCHANGED <<serverSettings, settingsFile, externalFile, envPath, connected>>

\* getPackageNameFromRepo on its own: a repository URL, what the
\* name-resolution tool printed and what the index answered.
ResolvePackageName ==
    \E repo \in RepoUrls, cli \in CliOutputs, finder \in ResolveFinders :
        /\ last' = [NoCall EXCEPT
                       !.op = "resolve",
                       !.arg = [repo |-> repo, cli |-> cli, finder |-> finder],
                       !.found = getPackageNameFromRepo(repo.url, cli, finder)]
        /\ UNCHANGED <<serverSettings, settingsFile, externalFile, envPath, connected,
                       disk>>

\* An install request step by step: every awaited command of an installer is
\* a step of its own, and `last` holds the request that is under way.
Phases ==
    {"SELECT_STRATEGY", "TRY_NPX", "CLONE", "DEPS", "BUILD_OR_CUSTOM", "DONE", "FAILED"}

TerminalPhases == {"DONE", "FAILED"}

\* The phase a command belongs to: the package runner, the clone, the
\* dependency install, and whatever else runs in the cloned directory.
PhaseOf(step) ==
    IF Len(step) >= 4 /\ SubSeq(step, 1, 4) = "npx " THEN "TRY_NPX"
    ELSE IF Includes(step, "git clone ") THEN "CLONE"
    ELSE IF EndsWith(step, " && npm install") THEN "DEPS"
    ELSE "BUILD_OR_CUSTOM"

Installing == last.op = "request" /\ last.phase \notin TerminalPhases

\* A request that has been accepted and has run nothing yet. `result` is
\* what the installer will have run and returned in the environment of the
\* request.
Request(installer, arg, out) ==
    [NoCall EXCEPT !.op = "request", !.arg = arg]
        @@ [installer |-> installer, phase |-> "SELECT_STRATEGY", ran |-> 0,
            path |-> <<"SELECT_STRATEGY">>, result |-> out, preDisk |-> disk]

RequestInstall ==
    \E serverName \in Names, useNpx \in BOOLEAN :
      \E env \in InstallEnvs(useNpx) :
        /\ ~Installing
        /\ last' = Request("handleInstallServer",
                       [serverName |-> serverName, useNpx |-> useNpx, env |-> env],
                       handleInstallServer(Now, disk, serverName, useNpx, env, TRUE))
        /\ UNCHANGED <<serverSettings, settingsFile, externalFile, envPath, connected,
                       disk>>

ClassRequestInstall ==
    \E registry \in ClassRegistries, serverName \in ClassNames, useNpx \in BOOLEAN :
      \E env \in ClassInstallEnvs(useNpx) :
        /\ ~Installing
        /\ last' = Request("MCPAutoInstallServer",
                       [serverName |-> serverName, useNpx |-> useNpx, env |-> env],
                       ClassHandleInstallServer(Now, registry, disk, serverName, useNpx,
                                                env))
        /\ UNCHANGED <<serverSettings, settingsFile, externalFile, envPath, connected,
                       disk>>

\* The next await of the request under way: its next command, or, with no
\* command left, the return of the handler.
InstallStep ==
    /\ Installing
    /\ LET out == last.result
       IN  IF last.ran < Len(out.steps)
           THEN /\ last' = [last EXCEPT
                               !.ran = @ + 1,
                               !.phase = PhaseOf(out.steps[last.ran + 1]),
                               !.path = Append(@, PhaseOf(out.steps[last.ran + 1]))]
                /\ UNCHANGED <<serverSettings, settingsFile, disk>>
           ELSE /\ last' = [last EXCEPT
                               !.success = out.success,
                               !.phase = IF out.success THEN "DONE" ELSE "FAILED",
                               !.path = Append(@, IF out.success THEN "DONE"
                                                  ELSE "FAILED")]
                /\ serverSettings' = out.w.mem
                /\ settingsFile' = out.w.file
                /\ disk' = out.disk
    /\ UNCHANGED <<externalFile, envPath, connected>>

\* A reconciler that read the external file again before it wrote.
ReadSnapshotFresh(snapshot, current) == current

\* The document a reconciler handler merges into: `config` of
\* saveCommandToExternalConfig, `existingConfig` of handleParseConfig, read
\* once and never read again before the write.
ReadSnapshot(snapshot, current) == snapshot

\* A reconciler handler has read the external file and not yet written it.
Pending == last.op = "reading"

\* Calls of the two reconciler handlers that get as far as their read.
RacedSaves ==
    { [serverName |-> FooName, command |-> c.command, args |-> c.args, env |-> c.env] :
         c \in {x \in CommandArgs : x.command # ""} }

RacedConfigs ==
    { [kind |-> "json", mcpServers |-> Some(<<NamedEntry(n, c)>>)] :
         n \in UserNames,
         c \in {UserEntry(JSONString("npx"), JSONArray(<<"-y", "pkg">>), None)} }

\* What another program may make of the external file: an entry of its own
\* added, the entry of FooName replaced, a top-level key added. A file that
\* is missing or not JSON is written anew.
ExternalEdits(file) ==
    LET document == IF ReadThrows(file) THEN Document({}, None) ELSE JSONparse(file)
    IN  { JSONstringify(SetServerEntry(document, "ext", OtherEntry)),
          JSONstringify(SetServerEntry(document, FooName, OtherEntry)),
          JSONstringify([document EXCEPT !.unrelated = @ \cup {<<"theme", 1>>}]) }

\* The read of a handler: the text of the external file is in the handler's
\* hands. The steps of the handler before the read touch no file another
\* step of this model writes; they are taken with the write.
Reading(handler, arg) ==
    /\ ~Pending
    /\ last' = [NoCall EXCEPT !.op = "reading", !.arg = arg]
                  @@ [handler |-> handler, snapshot |-> externalFile, edit |-> None]
    /\ UNCHANGED <<serverSettings, settingsFile, externalFile, envPath, connected, disk>>

SaveCommandRead ==
    \E c \in RacedSaves :
        /\ saveCommandToExternalConfig(Now, envPath, c.serverName, c.command, c.args,
                                       c.env, TRUE, TRUE).w.extReads > 0
        /\ Reading("saveCommand", c)

ParseConfigRead ==
    \E config \in RacedConfigs :
        /\ handleParseConfig(Now, envPath, config, TRUE).w.extReads > 0
        /\ Reading("parseConfig", config)

\* Another program writes the external file while a handler is between its
\* read and its write.
ExternalWrite ==
    \E edit \in ExternalEdits(externalFile) :
        /\ Pending /\ last.edit = None
        /\ edit # externalFile
        /\ externalFile' = edit
        /\ last' = [last EXCEPT !.edit = Some(edit)]
        /\ UNCHANGED <<serverSettings, settingsFile, envPath, connected, disk>>

\* The rest of the handler: it merges into what it read and writes the whole
\* file; a handler that does not get to write, or whose write is refused,
\* leaves the file as it is.
ReconcilerWrite ==
    \E extOk \in BOOLEAN :
        LET w == World(serverSettings, settingsFile,
                       ReadSnapshot(last.snapshot, externalFile))
            a == last.arg
            out == IF last.handler = "saveCommand"
                   THEN saveCommandToExternalConfig(w, envPath, a.serverName, a.command,
                                                    a.args, a.env, TRUE, extOk)
                   ELSE handleParseConfig(w, envPath, a, extOk)
        IN  /\ Pending
            /\ serverSettings' = out.w.mem
            /\ settingsFile' = out.w.file
            /\ externalFile' = IF out.w.extWrites > out.w.extFails THEN out.w.ext
                               ELSE externalFile
            /\ last' = Call("raced", a, w, out)
                          @@ [handler |-> last.handler, snapshot |-> last.snapshot,
                              edit |-> last.edit]
            /\ UNCHANGED <<envPath, connected, disk>>

\* handleConfigureServer: findServer, then handleGetServerReadme, whose
\* readmeContent is never empty.
handleConfigureServer(w, serverName, ok) ==
    LET f == findServer(w, serverName, ok)
    IN  IF f.index = 0
        THEN Outcome(f.w, FALSE, FALSE, None)
        ELSE handleGetServerReadme(f.w, serverName, ok)

\* getRegisteredServers: initSettings, then the cached list.
getRegisteredServers(w, ok) ==
    LET r == initSettings(w, ok)
    IN  Outcome(r, TRUE, FALSE, Some(r.mem.servers))

\* startServer to its end: after the preload, server.connect(transport),
\* whose rejection nothing in startServer catches.
startServerConnecting(w, finder, ok, connects) ==
    LET s == startServer(w, finder, ok)
    IN  IF s.threw \/ ~connects THEN Outcome(s.w, FALSE, TRUE, None) ELSE s

\* The subcommands of the command line.
CliSubcommands ==
    {"start", "list", "install", "register", "remove", "configure", "readme",
     "save-command"}

\* The action callback of a subcommand around its operation: the exit code
\* the process ends with, None when the callback returns without ending it.
\* `start` alone has no process.exit(0): it exits with 1 when startServer
\* rejects and goes on serving otherwise.
CliExit(subcommand, threw) ==
    IF subcommand = "start"
    THEN IF threw THEN Some(1) ELSE None
    ELSE Some(0)

\* The module of a command-line process is loaded afresh: its cache is empty.
Fresh == World([servers |-> <<>>], settingsFile, externalFile)

\* What an invocation of the command line leaves behind.
CliApply(subcommand, arg, out) ==
    /\ serverSettings' = out.w.mem
    /\ settingsFile' = out.w.file
    /\ externalFile' = out.w.ext
    /\ last' = Call("cli", arg, Fresh, out)
                  @@ [subcommand |-> subcommand,
                      exit |-> CliExit(subcommand, out.threw)]

CliStart ==
    \E finder \in {f \in FinderResults : f.packages = <<>>}, connects \in BOOLEAN :
        LET out == startServerConnecting(Fresh, finder, TRUE, connects)
        IN  /\ CliApply("start", [finder |-> finder, connects |-> connects], out)
            /\ connected' = ~out.threw
            /\ UNCHANGED <<envPath, disk>>

CliList ==
    \E ok \in BOOLEAN :
        /\ CliApply("list", <<>>, getRegisteredServers(Fresh, ok))
        /\ connected' = FALSE
        /\ UNCHANGED <<envPath, disk>>

CliRegister ==
    \E serverInfo \in {PlainRecord(n) : n \in Names}, ok \in BOOLEAN :
        /\ CliApply("register", serverInfo, handleRegisterServer(Fresh, serverInfo, ok))
        /\ connected' = FALSE
        /\ UNCHANGED <<envPath, disk>>

CliRemove ==
    \E serverName \in Names, ok \in BOOLEAN :
        /\ CliApply("remove", serverName, handleRemoveServer(Fresh, serverName, ok))
        /\ connected' = FALSE
        /\ UNCHANGED <<envPath, disk>>

CliConfigure ==
    \E serverName \in Names :
        /\ CliApply("configure", serverName,
                    handleConfigureServer(Fresh, serverName, TRUE))
        /\ connected' = FALSE
        /\ UNCHANGED <<envPath, disk>>

CliReadme ==
    \E serverName \in Names :
        /\ CliApply("readme", serverName, handleGetServerReadme(Fresh, serverName, TRUE))
        /\ connected' = FALSE
        /\ UNCHANGED <<envPath, disk>>

\* install <n> [--clone]: useNpx is the absence of --clone.
CliInstall ==
    \E serverName \in Names, clone \in BOOLEAN :
      \E env \in InstallEnvs(~clone) :
        LET out == handleInstallServer(Fresh, disk, serverName, ~clone, env, TRUE)
        IN  /\ env.failAt <= 1
            /\ CliApply("install", [serverName |-> serverName, clone |-> clone,
                                    env |-> env], out)
            /\ disk' = out.disk
            /\ connected' = FALSE
            /\ UNCHANGED envPath

\* save-command <server-name> <command>: the command alone is passed on, with
\* neither arguments nor environment.
CliSaveCommand ==
    \E serverName \in Names, command \in {"npx", ""}, extOk \in BOOLEAN :
        /\ CliApply("save-command", [serverName |-> serverName, command |-> command],
                    saveCommandToExternalConfig(Fresh, envPath, serverName, command,
                                                <<>>, None, TRUE, extOk))
        /\ connected' = FALSE
        /\ UNCHANGED <<envPath, disk>>

\* A new MCPAutoInstallServer: the constructor and init().
ClassLoadRegistry ==
    \E finder \in ClassFinderResults, ok \in BOOLEAN :
        LET out == loadRegistry(disk.registry, finder, ok)
        IN  /\ disk' = [disk EXCEPT !.registry = out.file]
            /\ last' = [NoCall EXCEPT !.op = "classLoad",
                                      !.arg = [finder |-> finder, ok |-> ok],
                                      !.success = TRUE,
                                      !.found = Some(out.registry)]
                          @@ [preDisk |-> disk]
            /\ UNCHANGED <<serverSettings, settingsFile, externalFile, envPath, connected>>

Init ==
    /\ serverSettings = [servers |-> <<>>]
    /\ settingsFile \in InitialSettingsFiles
    /\ externalFile \in InitialExternalFiles
    /\ envPath \in BOOLEAN
    /\ connected = FALSE
    /\ disk = EmptyDisk
    /\ last = NoCall

\* Two protocol requests at once. The handlers are async functions: a
\* request runs from one await to the next, and another request may run
\* between. `last` holds where the two requests are: `pc` the position of a
\* removeServer or saveNpxCommand request, `reload` that of a
\* getAvailableServers request, which does nothing but initSettings.
\*   text   what saveSettings has handed to fs.writeFile
\*   index  the position, in the array findServer searched, of the record
\*          that saveCommandToExternalConfig holds in `server`
\*   stale  serverSettings has been reassigned since the request began or,
\*          for saveCommandToExternalConfig, since findServer returned:
\*          `server` is no longer a record of serverSettings
\*   data   what the readFile of the reload returned
IdleRequests ==
    [NoCall EXCEPT !.op = "await"]
        @@ [subject |-> "none", pc |-> "done", text |-> MissingFile, index |-> 0,
            stale |-> FALSE, reload |-> "idle", data |-> MissingFile]

Requests == IF last.op = "await" THEN last ELSE IdleRequests

AwaitFrame == UNCHANGED <<externalFile, envPath, connected, disk>>

\* handleRemoveServer up to its first await: the filter, the test of the
\* length and, in saveSettings, the call of fs.mkdir.
RemoveFilter ==
    \E serverName \in Names :
        LET filtered == FilterOutName(serverSettings.servers, serverName)
            found == Len(filtered) # Len(serverSettings.servers)
        IN  /\ Requests.pc = "done"
            /\ serverSettings' = [serverSettings EXCEPT !.servers = filtered]
            /\ last' = [Requests EXCEPT !.subject = "remove", !.arg = serverName,
                                        !.success = FALSE, !.stale = FALSE,
                                        !.pc = IF found THEN "mkdir" ELSE "done"]
            /\ UNCHANGED settingsFile
            /\ AwaitFrame

\* saveSettings after fs.mkdir: JSON.stringify(serverSettings) and the call
\* of fs.writeFile, for either request.
SaveStringify ==
    /\ Requests.pc = "mkdir"
    /\ last' = [last EXCEPT !.text = JSONstringify(serverSettings), !.pc = "write"]
    /\ UNCHANGED <<serverSettings, settingsFile>>
    /\ AwaitFrame

\* The file is written; saveSettings and the handler return.
SaveWritten ==
    /\ Requests.pc = "write"
    /\ settingsFile' = last.text
    /\ last' = [last EXCEPT !.success = TRUE, !.pc = "done"]
    /\ UNCHANGED serverSettings
    /\ AwaitFrame

\* saveCommandToExternalConfig up to its first await: the tests of the
\* command and of the path, and, in findServer's initSettings, fs.mkdir.
SaveCommandBegin ==
    \E c \in RacedSaves :
        /\ Requests.pc = "done"
        /\ ~PathMissing(envPath)
        /\ last' = [Requests EXCEPT !.subject = "saveCommand", !.arg = c,
                                    !.success = FALSE, !.stale = FALSE,
                                    !.index = 0, !.pc = "find"]
        /\ UNCHANGED <<serverSettings, settingsFile>>
        /\ AwaitFrame

\* The rest of findServer: the registry file is read into serverSettings and
\* the record is looked for; then the external file is read.
SaveCommandFind ==
    LET servers == JSONparse(settingsFile).servers
        index == FindIndexByFragment(servers, last.arg.serverName)
    IN  /\ Requests.pc = "find"
        /\ ~ReadThrows(settingsFile)
        /\ serverSettings' = JSONparse(settingsFile)
        /\ last' = [last EXCEPT !.index = index, !.stale = FALSE,
                                !.pc = IF index = 0 THEN "done" ELSE "external"]
        /\ UNCHANGED settingsFile
        /\ AwaitFrame

\* The external file is read, merged and written; back from fs.writeFile the
\* handler sets server.commandConfig, on the record it holds, and calls
\* saveSettings, which awaits fs.mkdir.
SaveCommandExternal ==
    LET entry == CommandEntry(last.arg.command, last.arg.args, last.arg.env)
    IN  /\ Requests.pc = "external"
        /\ ~ReadThrows(externalFile)
        /\ externalFile' = JSONstringify(
               SetServerEntry(JSONparse(externalFile), last.arg.serverName, entry))
        /\ serverSettings' =
              IF last.stale THEN serverSettings
              ELSE [serverSettings EXCEPT !.servers[last.index].commandConfig =
                                               Some(entry)]
        /\ last' = [last EXCEPT !.pc = "mkdir"]
        /\ UNCHANGED <<settingsFile, envPath, connected, disk>>

\* getRegisteredServers: initSettings up to its fs.mkdir.
ReloadBegin ==
    /\ Requests.reload = "idle"
    /\ Requests.subject # "none"
    /\ last' = [Requests EXCEPT !.reload = "mkdir"]
    /\ UNCHANGED <<serverSettings, settingsFile>>
    /\ AwaitFrame

\* fs.readFile of the registry file.
ReloadRead ==
    /\ Requests.reload = "mkdir"
    /\ ~ReadThrows(settingsFile)
    /\ last' = [last EXCEPT !.data = settingsFile, !.reload = "read"]
    /\ UNCHANGED <<serverSettings, settingsFile>>
    /\ AwaitFrame

\* serverSettings = JSON.parse(data): a new object takes the place of the
\* registry in memory.
ReloadAssign ==
    /\ Requests.reload = "read"
    /\ serverSettings' = JSONparse(last.data)
    /\ last' = [last EXCEPT !.stale = TRUE, !.reload = "idle"]
    /\ UNCHANGED settingsFile
    /\ AwaitFrame

\* The names the tool-list handler returns.
AdvertisedTools ==
    { "mcp_auto_install_getAvailableServers",
      "mcp_auto_install_removeServer",
      "mcp_auto_install_configureServer",
      "mcp_auto_install_getServerReadme",
      "mcp_auto_install_saveNpxCommand",
      "mcp_auto_install_parseJsonConfig" }

\* The names a client may ask for: the advertised ones and two others.
RequestedTools ==
    AdvertisedTools \cup {"mcp_auto_install_registerServer", "unknown"}

\* The arguments of a tool call; each tool takes the ones it declares.
ToolArguments ==
    { [serverName |-> n, command |-> c, config |-> u] :
         n \in Names,
         c \in {x \in CommandArgs : x.command = "node"},
         u \in { [kind |-> "malformed", mcpServers |-> None],
                 [kind |-> "json", mcpServers |-> Some(<<>>)] } }

\* The tool-call handler: the switch on the name, each case awaiting its
\* handler and wrapping the result in a content envelope, the default case
\* throwing `Unknown tool`.
CallTool ==
    \E name \in RequestedTools, args \in ToolArguments :
        LET out ==
              CASE name = "mcp_auto_install_getAvailableServers" ->
                     getRegisteredServers(Now, TRUE)
                [] name = "mcp_auto_install_removeServer" ->
                     handleRemoveServer(Now, args.serverName, TRUE)
                [] name = "mcp_auto_install_configureServer" ->
                     handleConfigureServer(Now, args.serverName, TRUE)
                [] name = "mcp_auto_install_saveNpxCommand" ->
                     saveCommandToExternalConfig(Now, envPath, args.serverName,
                                                 args.command.command,
                                                 args.command.args,
                                                 args.command.env, TRUE, TRUE)
                [] name = "mcp_auto_install_parseJsonConfig" ->
                     handleParseConfig(Now, envPath, args.config, TRUE)
                [] OTHER -> Outcome(Now, FALSE, TRUE, None)
            unknown ==
              name \notin { "mcp_auto_install_getAvailableServers",
                            "mcp_auto_install_removeServer",
                            "mcp_auto_install_configureServer",
                            "mcp_auto_install_saveNpxCommand",
                            "mcp_auto_install_parseJsonConfig" }
        IN  /\ serverSettings' = out.w.mem
            /\ settingsFile' = out.w.file
            /\ externalFile' = out.w.ext
            /\ last' = Call("callTool", args, Now, out)
                          @@ [tool |-> name, unknown |-> unknown,
                              envelope |-> ~out.threw]
            /\ UNCHANGED <<envPath, connected, disk>>

Next ==
    \/ NewProcess
    \/ StartServer(BOOLEAN)
    \/ Register(BOOLEAN)
    \/ Remove(BOOLEAN)
    \/ GetServerReadme(BOOLEAN)
    \/ SaveCommand(BOOLEAN, BOOLEAN)
    \/ ParseConfig(BOOLEAN)
    \/ InstallServer(BOOLEAN)
    \/ ClassInstallServer
    \/ ClassLoadRegistry
    \/ CliStart
    \/ CliList
    \/ CliRegister
    \/ CliRemove
    \/ CliConfigure
    \/ CliReadme
    \/ CliInstall
    \/ CliSaveCommand
    \/ SaveCommandRead
    \/ ParseConfigRead
    \/ ExternalWrite
    \/ ReconcilerWrite
    \/ RequestInstall
    \/ ClassRequestInstall
    \/ InstallStep
    \/ ResolvePackageName
    \/ RemoveFilter
    \/ SaveStringify
    \/ SaveWritten
    \/ SaveCommandBegin
    \/ SaveCommandFind
    \/ SaveCommandExternal
    \/ ReloadBegin
    \/ ReloadRead
    \/ ReloadAssign
    \/ CallTool

\* The whole system.
Spec == Init /\ [][Next]_vars

(* The properties below are checked under restrictions of Spec: each keeps   *)
(* the handlers and the initial files its properties are about, so that the *)
(* reachable states can be enumerated.                                      *)

\* The registry store alone: no external configuration file is in play.
InitRegistry ==
    /\ Init
    /\ externalFile = MissingFile
    /\ envPath = FALSE

NextRegistry ==
    \/ NewProcess
    \/ Register(BOOLEAN)
    \/ Remove(BOOLEAN)
    \/ GetServerReadme(BOOLEAN)

SpecRegistry == InitRegistry /\ [][NextRegistry]_vars

\* Discovery at startup against a registry that register calls fill.
NextDiscovery ==
    \/ NewProcess
    \/ StartServer({TRUE})
    \/ Register({TRUE})

SpecDiscovery == InitRegistry /\ [][NextDiscovery]_vars

\* The reconciler against the registries and external files of Init.
NextReconciler ==
    \/ NewProcess
    \/ SaveCommand(BOOLEAN, BOOLEAN)

SpecReconciler == Init /\ [][NextReconciler]_vars

\* parseConfig against the external files of Init; it never uses the registry.
InitParse ==
    /\ Init
    /\ settingsFile \in {MissingFile, JSONstringify([servers |-> <<>>])}

NextParse ==
    \/ NewProcess
    \/ ParseConfig(BOOLEAN)

SpecParse == InitParse /\ [][NextParse]_vars

\* Both reconciler handlers in a process started without MCP_SETTINGS_PATH.
InitNoPath ==
    /\ Init
    /\ envPath = FALSE

NextNoPath ==
    \/ SaveCommand(BOOLEAN, BOOLEAN)
    \/ ParseConfig(BOOLEAN)

SpecNoPath == InitNoPath /\ [][NextNoPath]_vars

\* Both reconciler handlers, with the path set, from a registry of one record
\* without commandConfig and an external file that holds no server yet.
InitCommandConfig ==
    /\ serverSettings = [servers |-> <<>>]
    /\ settingsFile = JSONstringify([servers |-> <<PlainRecord(FooName)>>])
    /\ externalFile = JSONstringify(Document({}, None))
    /\ envPath = TRUE
    /\ connected = FALSE
    /\ disk = EmptyDisk
    /\ last = NoCall

NextCommandConfig ==
    \/ SaveCommand({TRUE}, {TRUE})
    \/ ParseConfig({TRUE})

SpecCommandConfig == InitCommandConfig /\ [][NextCommandConfig]_vars

\* MCPAutoInstallServer objects created one after the other over the
\* registry.json a first one finds.
InitClassRegistry ==
    /\ serverSettings = [servers |-> <<>>]
    /\ settingsFile = MissingFile
    /\ externalFile = MissingFile
    /\ envPath = FALSE
    /\ connected = FALSE
    /\ disk \in {[EmptyDisk EXCEPT !.registry = file] : file \in ClassRegistryFiles}
    /\ last = NoCall

NextClassRegistry == ClassLoadRegistry

SpecClassRegistry ==
    /\ InitClassRegistry
    /\ [][NextClassRegistry]_vars

\* The loads of both programs: get-readme, which loads the registry file and
\* changes nothing, after registers that may have failed to save, and new
\* MCPAutoInstallServer objects.
InitLoad ==
    /\ serverSettings = [servers |-> <<>>]
    /\ settingsFile \in InitialSettingsFiles
    /\ externalFile = MissingFile
    /\ envPath = FALSE
    /\ connected = FALSE
    /\ disk \in {[EmptyDisk EXCEPT !.registry = file] : file \in ClassRegistryFiles}
    /\ last = NoCall

NextLoad ==
    \/ Register(BOOLEAN)
    \/ GetServerReadme(BOOLEAN)
    \/ ClassLoadRegistry

SpecLoad == InitLoad /\ [][NextLoad]_vars

\* The command line: every step is one invocation, a process of its own.
InitCli ==
    /\ serverSettings = [servers |-> <<>>]
    /\ settingsFile \in {MissingFile, JSONstringify([servers |-> <<PlainRecord(FooName)>>])}
    /\ externalFile = JSONstringify(Document({}, None))
    /\ envPath = TRUE
    /\ connected = FALSE
    /\ disk = EmptyDisk
    /\ last = NoCall

NextCli ==
    \/ CliStart
    \/ CliList
    \/ CliRegister
    \/ CliRemove
    \/ CliConfigure
    \/ CliReadme
    \/ CliInstall
    \/ CliSaveCommand

SpecCli == InitCli /\ [][NextCli]_vars

\* The reconciler handlers, their read and their write two steps, beside
\* another program that writes the external file.
InitRace ==
    /\ serverSettings = [servers |-> <<>>]
    /\ settingsFile = JSONstringify([servers |-> <<PlainRecord(FooName)>>])
    /\ externalFile \in {MissingFile, JSONstringify(Document({}, None))}
    /\ envPath = TRUE
    /\ connected = FALSE
    /\ disk = EmptyDisk
    /\ last = NoCall

NextRace ==
    \/ SaveCommandRead
    \/ ParseConfigRead
    \/ ExternalWrite
    \/ ReconcilerWrite

SpecRace == InitRace /\ [][NextRace]_vars

\* The two installers against the registries installs find.
InitInstall ==
    /\ serverSettings = [servers |-> <<>>]
    /\ settingsFile \in InstallSettingsFiles
    /\ externalFile = MissingFile
    /\ envPath = FALSE
    /\ connected = FALSE
    /\ disk = EmptyDisk
    /\ last = NoCall

NextInstall ==
    \/ InstallServer({TRUE})
    \/ ClassInstallServer

SpecInstall == InitInstall /\ [][NextInstall]_vars

\* handleInstallServer on records without a usable repository URL.
InitNoRepo ==
    /\ serverSettings = [servers |-> <<>>]
    /\ settingsFile \in NoRepoSettingsFiles
    /\ externalFile = MissingFile
    /\ envPath = FALSE
    /\ connected = FALSE
    /\ disk = EmptyDisk
    /\ last = NoCall

NextNoRepo == InstallServer({TRUE})

SpecNoRepo == InitNoRepo /\ [][NextNoRepo]_vars

\* Two protocol requests at once on a registry that has been loaded.
InitAwait ==
    /\ settingsFile \in
          { JSONstringify([servers |-> <<PlainRecord(FooName)>>]),
            JSONstringify([servers |-> <<PlainRecord(ScopedName), FullRecord(FooName)>>]) }
    /\ serverSettings = JSONparse(settingsFile)
    /\ externalFile = JSONstringify(Document({}, None))
    /\ envPath = TRUE
    /\ connected = TRUE
    /\ disk = EmptyDisk
    /\ last = NoCall

NextAwait ==
    \/ RemoveFilter
    \/ SaveStringify
    \/ SaveWritten
    \/ SaveCommandBegin
    \/ SaveCommandFind
    \/ SaveCommandExternal
    \/ ReloadBegin
    \/ ReloadRead
    \/ ReloadAssign

SpecAwait == InitAwait /\ [][NextAwait]_vars

\* The protocol surface: tool calls on a running server.
InitTools ==
    /\ settingsFile \in
          { JSONstringify([servers |-> <<PlainRecord(FooName)>>]),
            JSONstringify([servers |-> <<PlainRecord(ScopedName), FullRecord(FooName)>>]) }
    /\ serverSettings = JSONparse(settingsFile)
    /\ externalFile = JSONstringify(Document({}, None))
    /\ envPath = TRUE
    /\ connected = TRUE
    /\ disk = EmptyDisk
    /\ last = NoCall

NextTools == CallTool

SpecTools == InitTools /\ [][NextTools]_vars

\* The resolution of package names alone.
NextResolve == ResolvePackageName

SpecResolve == InitInstall /\ [][NextResolve]_vars

\* Install requests step by step. Every command ends: the step of a request
\* under way is taken sooner or later.
NextRequests ==
    \/ RequestInstall
    \/ ClassRequestInstall
    \/ InstallStep

SpecRequests == InitInstall /\ [][NextRequests]_vars /\ WF_vars(InstallStep)

----------------------------------------------------------------------------
(* Properties *)

DistinctNames(servers) ==
    \A i, j \in 1..Len(servers) : i # j => servers[i].name # servers[j].name

NamesOf(servers) == {servers[i].name : i \in 1..Len(servers)}

IndicesNamed(servers, name) == {i \in 1..Len(servers) : servers[i].name = name}

RemoveAt(servers, i) == SubSeq(servers, 1, i - 1) \o SubSeq(servers, i + 1, Len(servers))

\* The records a registry file holds; none when it is missing or malformed.
PersistedServers(file) == IF file.kind = "json" THEN file.value.servers ELSE <<>>

\* C1: no two records of the registry share a name, and after a register the
\* one record under the registered name is the argument itself, field for
\* field (an optional field the argument omits is absent), every other record
\* staying as it was at its position.
C1_RegisterReplacesWholeRecord ==
    /\ DistinctNames(serverSettings.servers)
    /\ last.op = "register" =>
         LET servers == serverSettings.servers
             before == last.pre.mem.servers
             named == IndicesNamed(servers, last.arg.name)
         IN  /\ Cardinality(named) = 1
             /\ \A i \in named : servers[i] = last.arg
             /\ \A i \in 1..Len(before) :
                    before[i].name # last.arg.name => servers[i] = before[i]
             /\ NamesOf(servers) = NamesOf(before) \cup {last.arg.name}

\* C1 witness: a record that had a readme, a commandConfig and installCommands
\* was re-registered without them, next to another record.
C1_Witness ==
    /\ last.op = "register"
    /\ last.arg = PlainRecord(last.arg.name)
    /\ FullRecord(last.arg.name) \in {last.pre.mem.servers[i] : i \in 1..Len(last.pre.mem.servers)}
    /\ Len(serverSettings.servers) = 2
    /\ \A i \in IndicesNamed(serverSettings.servers, last.arg.name) :
            serverSettings.servers[i].readme = None

\* C2: register(r) leaves every record of the persisted registry file whose
\* name differs from r.name present and unchanged in the file, whatever the
\* process state.
C2_RegisterKeepsPersistedRecords ==
    last.op = "register" =>
        \A i \in 1..Len(PersistedServers(last.pre.file)) :
            LET rec == PersistedServers(last.pre.file)[i]
            IN  rec.name # last.arg.name =>
                    \E j \in 1..Len(PersistedServers(settingsFile)) :
                        PersistedServers(settingsFile)[j] = rec

\* C3: find(f) returns a record whose name contains f whenever the registry
\* holds one, and remove(f) reports not-found and removes nothing unless a
\* record is named exactly f.
C3_FindBySubstringRemoveByName ==
    /\ last.op = "readme" =>
         ((\E i \in 1..Len(serverSettings.servers) :
                Includes(serverSettings.servers[i].name, last.arg))
            => /\ last.found # None
               /\ Includes(last.found[1].name, last.arg)
               /\ last.found[1] \in
                    {serverSettings.servers[i] : i \in 1..Len(serverSettings.servers)})
    /\ last.op = "remove" =>
         (last.arg \notin NamesOf(last.pre.mem.servers)
            => /\ ~last.success
               /\ serverSettings = last.pre.mem
               /\ settingsFile = last.pre.file)

\* C3 witness: remove of a fragment was refused although find returns a
\* record for the same fragment in the same registry.
C3_Witness ==
    /\ last.op = "remove"
    /\ last.arg = FooName
    /\ ~last.success
    /\ NamesOf(serverSettings.servers) = {ScopedName}
    /\ settingsFile = JSONstringify(serverSettings)
    /\ handleGetServerReadme(Now, last.arg, TRUE).found # None

\* C4: remove(name) with no record named exactly name returns success:false,
\* changes nothing and writes nothing; with such a record it removes exactly
\* that record, keeps the others and their order, and writes the registry
\* file, which holds the new registry once the file system took the write.
C4_RemoveFrame ==
    last.op = "remove" =>
        LET before == last.pre.mem.servers
            named == IndicesNamed(before, last.arg)
        IN  IF named = {}
            THEN /\ ~last.success /\ ~last.threw
                 /\ serverSettings = last.pre.mem
                 /\ settingsFile = last.pre.file
                 /\ last.io.regWrites = 0
            ELSE /\ \A i \in named : serverSettings.servers = RemoveAt(before, i)
                 /\ last.io.regWrites = 1
                 /\ last.io.regFails = 0 =>
                        /\ last.success
                        /\ settingsFile = JSONstringify(serverSettings)

\* C4 witness: one of two records was removed and the registry was persisted.
C4_Witness ==
    /\ last.op = "remove"
    /\ last.success
    /\ Len(last.pre.mem.servers) = 2
    /\ Len(serverSettings.servers) = 1
    /\ settingsFile = JSONstringify(serverSettings)
    /\ settingsFile # last.pre.file

\* C5: a register(r) that directly follows a successful register(r) succeeds
\* (the file system taking the write) and leaves the registry, in memory and
\* in the file, as the first call left it, with one record named r.name.
C5_RegisterIdempotent ==
    [][ ( /\ last.op = "register" /\ last.success
          /\ last'.op = "register" /\ last'.arg = last.arg
          /\ last'.io.regFails = 0 )
        => /\ last'.success
           /\ serverSettings' = serverSettings
           /\ settingsFile' = settingsFile
           /\ Cardinality(IndicesNamed(serverSettings'.servers, last.arg.name)) = 1
      ]_vars

\* C5 witness: a successful register of a record that the registry, in memory
\* and in the file, already held as registered.
C5_Witness ==
    /\ last.op = "register"
    /\ last.success
    /\ last.arg \in {last.pre.mem.servers[i] : i \in 1..Len(last.pre.mem.servers)}
    /\ last.pre.file = JSONstringify(last.pre.mem)
    /\ serverSettings = last.pre.mem
    /\ settingsFile = last.pre.file

\* The registry startServer's initSettings loads before discovery runs.
LoadedServers(file) == PersistedServers(file)

\* The packages of a list that preloadMCPPackages does not skip.
Considered(packages) ==
    {i \in 1..Len(packages) : packages[i].name # "" /\ packages[i].name # SdkName}

\* C6: discovery leaves a non-empty readme of an existing record as it is,
\* whatever readme the package of that name carries, and gives a record
\* without readme the readme of the first package of its name that has one.
C6_ReadmeMergedByAbsence ==
    (last.op = "start" /\ ~last.arg.failed) =>
        LET before == LoadedServers(last.pre.file)
            packages == last.arg.packages
            servers == serverSettings.servers
        IN  \A i \in 1..Len(before) :
                LET offers == {k \in Considered(packages) :
                                  /\ packages[k].name = before[i].name
                                  /\ Truthy(packages[k].readme)}
                IN  /\ Len(servers) >= i
                    /\ Truthy(before[i].readme) => servers[i].readme = before[i].readme
                    /\ (before[i].readme = None /\ offers # {}) =>
                          \E k \in offers :
                              /\ \A m \in offers : k <= m
                              /\ servers[i].readme = packages[k].readme
                    /\ (before[i].readme = None /\ offers = {}) =>
                          servers[i].readme = None

\* C6 witness: one discovery met a record with a readme other than the
\* discovered one and kept it, and met a record without readme and filled it.
C6_Witness ==
    /\ last.op = "start" /\ ~last.arg.failed
    /\ \E i, j \in 1..Len(LoadedServers(last.pre.file)) :
        \E k, m \in Considered(last.arg.packages) :
            LET before == LoadedServers(last.pre.file)
                packages == last.arg.packages
            IN  /\ packages[k].name = before[i].name
                /\ Truthy(before[i].readme) /\ Truthy(packages[k].readme)
                /\ packages[k].readme # before[i].readme
                /\ serverSettings.servers[i].readme = before[i].readme
                /\ packages[m].name = before[j].name
                /\ before[j].readme = None
                /\ serverSettings.servers[j].readme = packages[m].readme
                /\ Truthy(packages[m].readme)

\* C7: discovery removes no record and changes no field but readme of a
\* record it finds (commandConfig included); every new package name is
\* appended as exactly one record, without commandConfig, however often the
\* name occurs in the package list, and nothing else is appended.
C7_DiscoveryFrame ==
    (last.op = "start" /\ ~last.arg.failed) =>
        LET before == LoadedServers(last.pre.file)
            packages == last.arg.packages
            servers == serverSettings.servers
            newNames == {packages[k].name : k \in Considered(packages)} \ NamesOf(before)
        IN  /\ Len(servers) = Len(before) + Cardinality(newNames)
            /\ \A i \in 1..Len(before) :
                    servers[i] = [before[i] EXCEPT !.readme = servers[i].readme]
            /\ \A n \in newNames :
                    /\ Cardinality(IndicesNamed(servers, n)) = 1
                    /\ \A i \in IndicesNamed(servers, n) :
                          /\ i > Len(before)
                          /\ servers[i].commandConfig = None
                          /\ servers[i].command = "npx " \o n

\* C7 witness: a package list naming one new package twice added one record,
\* next to a record that was there before.
C7_Witness ==
    /\ last.op = "start" /\ ~last.arg.failed
    /\ Len(last.arg.packages) = 2
    /\ last.arg.packages[1].name = last.arg.packages[2].name
    /\ last.arg.packages[1].name = ScopedName
    /\ NamesOf(LoadedServers(last.pre.file)) = {FooName}
    /\ Len(serverSettings.servers) = 2

\* C8: when the package-index query fails, startServer still connects the
\* transport, and the registry in memory and in the file is the one that was
\* persisted when initSettings had run (the file's records, or the empty
\* registry initSettings wrote where the file could not be read).
C8_DiscoveryFailureIsSwallowed ==
    (last.op = "start" /\ last.arg.failed) =>
        /\ connected
        /\ ~last.threw
        /\ serverSettings.servers = LoadedServers(last.pre.file)
        /\ settingsFile = JSONstringify(serverSettings)
        /\ last.pre.file.kind = "json" => settingsFile = last.pre.file

\* C8 witness: a start whose discovery failed, on a registry with records.
C8_Witness ==
    /\ last.op = "start" /\ last.arg.failed
    /\ connected
    /\ Len(serverSettings.servers) = 2
    /\ settingsFile = last.pre.file

\* The entry a saveCommand call is to store.
EntryOfCall(arg) ==
    [command |-> arg.command, args |-> arg.args,
     env |-> IF arg.env = None THEN Some({}) ELSE arg.env]

ServersMap(document) ==
    IF document.mcpServers = None THEN <<>> ELSE document.mcpServers[1]

\* C9: a successful saveCommand for server b leaves an external document in
\* which mcpServers[b] is {command, args, env or {}}, every other entry of
\* mcpServers is the one the document had, no other entry was added, and
\* every other top-level key is as it was.
C9_ReconcilerKeyIsolation ==
    (last.op = "saveCommand" /\ last.success /\ last.pre.ext.kind = "json") =>
        /\ externalFile.kind = "json"
        /\ LET old == last.pre.ext.value
               new == externalFile.value
               b == last.arg.serverName
           IN  /\ new.unrelated = old.unrelated
               /\ new.mcpServers # None
               /\ DOMAIN ServersMap(new) = DOMAIN ServersMap(old) \cup {b}
               /\ ServersMap(new)[b] = EntryOfCall(last.arg)
               /\ \A k \in DOMAIN ServersMap(old) :
                      k # b => ServersMap(new)[k] = ServersMap(old)[k]

\* C9 witness: a saveCommand replaced the entry of its server in a document
\* that holds an unrelated top-level key and another server's entry.
C9_Witness ==
    /\ last.op = "saveCommand" /\ last.success
    /\ last.pre.ext.kind = "json"
    /\ last.pre.ext.value.unrelated # {}
    /\ last.arg.serverName \in DOMAIN ServersMap(last.pre.ext.value)
    /\ ServersMap(last.pre.ext.value)[last.arg.serverName] # EntryOfCall(last.arg)
    /\ "a" \in DOMAIN ServersMap(externalFile.value)

\* C10: saveCommand for a registered server with the external path set,
\* a command and a file system that takes every write succeeds although the
\* external file is absent or unreadable, and leaves a file whose mcpServers
\* holds the new entry.
C10_AbsentExternalFileIsEmptyObject ==
    ( /\ last.op = "saveCommand"
      /\ envPath
      /\ last.arg.command # ""
      /\ last.pre.ext.kind # "json"
      /\ FindIndexByFragment(serverSettings.servers, last.arg.serverName) # 0
      /\ last.io.regFails = 0 /\ last.io.extFails = 0 )
    => /\ last.success
       /\ externalFile.kind = "json"
       /\ last.arg.serverName \in DOMAIN ServersMap(externalFile.value)

\* C11: saveCommand for a serverName that no record of the registry, in
\* memory or in the file, is named returns success:false and changes neither
\* the external file nor any record of the registry.
C11_SaveCommandNeedsRegisteredName ==
    ( /\ last.op = "saveCommand"
      /\ last.arg.serverName \notin NamesOf(last.pre.mem.servers)
      /\ last.arg.serverName \notin NamesOf(PersistedServers(last.pre.file)) )
    => /\ ~last.success
       /\ externalFile = last.pre.ext
       /\ PersistedServers(settingsFile) = PersistedServers(last.pre.file)

\* The file I/O of the last call: reads and writes of either file.
NoFileIO ==
    /\ last.io.regReads = 0 /\ last.io.regWrites = 0
    /\ last.io.extReads = 0 /\ last.io.extWrites = 0

\* C12: in a process without MCP_SETTINGS_PATH every saveCommand and every
\* parseConfig, whatever its arguments, returns success:false without
\* throwing, has read and written neither file, and leaves both files and
\* the cached registry as they were.
C12_MissingPathGuard ==
    (~envPath /\ last.op \in {"saveCommand", "parseConfig"}) =>
        /\ ~last.success
        /\ ~last.threw
        /\ NoFileIO
        /\ externalFile = last.pre.ext
        /\ settingsFile = last.pre.file
        /\ serverSettings = last.pre.mem

\* C12 witness: without the path, a saveCommand with a command for a name the
\* registry file holds, and a parseConfig of two accepted entries, have been
\* refused.
C12_Witness ==
    /\ ~envPath /\ ~last.success
    /\ \/ /\ last.op = "saveCommand"
          /\ last.arg.command # ""
          /\ last.arg.serverName \in NamesOf(PersistedServers(settingsFile))
       \/ /\ last.op = "parseConfig"
          /\ last.arg.kind = "json" /\ last.arg.mcpServers # None
          /\ Len(last.arg.mcpServers[1]) = 2
          /\ FirstStop(last.arg.mcpServers[1]) = 0

\* C13: whenever saveCommand returns success:true for a serverName that is
\* the name of a record, mcpServers[serverName] of the external file is
\* {command, args, env or {}} and so is the commandConfig of every record of
\* that name in the registry file.
C13_SaveCommandWritesBothStores ==
    ( /\ last.op = "saveCommand" /\ last.success
      /\ last.arg.serverName \in NamesOf(PersistedServers(last.pre.file)) )
    => /\ externalFile.kind = "json"
       /\ last.arg.serverName \in DOMAIN ServersMap(externalFile.value)
       /\ ServersMap(externalFile.value)[last.arg.serverName] = EntryOfCall(last.arg)
       /\ \E i \in 1..Len(PersistedServers(settingsFile)) :
              PersistedServers(settingsFile)[i].name = last.arg.serverName
       /\ \A i \in 1..Len(PersistedServers(settingsFile)) :
              PersistedServers(settingsFile)[i].name = last.arg.serverName =>
                  PersistedServers(settingsFile)[i].commandConfig
                      = Some(EntryOfCall(last.arg))

\* The entries of a parseConfig argument, in order; none when the text is not
\* JSON or has no mcpServers.
EntriesOf(config) ==
    IF config.kind = "json" /\ config.mcpServers # None
    THEN config.mcpServers[1] ELSE <<>>

\* An entry without a non-empty command string, or whose args is no array.
Offends(config) ==
    \/ config.null
    \/ config.command.type # "string" \/ config.command.text = ""
    \/ config.args.type # "array"

\* C14: a parseConfig whose mcpServers holds an entry without a non-empty
\* command string or with args that is not an array, at whatever position and
\* next to whatever other entries, returns success:false with a message that
\* names an offending server, and leaves the external file as it was.
C14_ParseConfigAllOrNothing ==
    ( /\ last.op = "parseConfig"
      /\ \E i \in 1..Len(EntriesOf(last.arg)) : Offends(EntriesOf(last.arg)[i].config) )
    => /\ ~last.success
       /\ last.named # None
       /\ \E i \in 1..Len(EntriesOf(last.arg)) :
              /\ Offends(EntriesOf(last.arg)[i].config)
              /\ EntriesOf(last.arg)[i].name = last.named[1]
       /\ last.io.extWrites = 0
       /\ externalFile = last.pre.ext

\* The document parseConfig merges into: the external file's, or the empty
\* object when the file is absent or is not JSON.
ExistingDocument(file) ==
    IF file.kind = "json" THEN file.value ELSE Document({}, None)

\* C15: a parseConfig whose argument passes the validation, in a process with
\* the path and on a file system that takes the write, succeeds and leaves an
\* external file in which every entry of the argument has replaced the entry
\* of its name, every other entry of the existing mcpServers is as it was, no
\* further entry exists, and every other top-level key is as it was.
C15_ParseConfigShallowMerge ==
    ( /\ last.op = "parseConfig"
      /\ last.arg.kind = "json"
      /\ FirstStop(EntriesOf(last.arg)) = 0
      /\ envPath
      /\ last.io.extFails = 0 )
    => /\ last.success
       /\ externalFile.kind = "json"
       /\ LET old == ExistingDocument(last.pre.ext)
              new == externalFile.value
              entries == EntriesOf(last.arg)
              names == {entries[i].name : i \in 1..Len(entries)}
          IN  /\ new.unrelated = old.unrelated
              /\ new.mcpServers # None
              /\ DOMAIN ServersMap(new) = DOMAIN ServersMap(old) \cup names
              /\ \A i \in 1..Len(entries) :
                     ServersMap(new)[entries[i].name] = WrittenEntry(entries[i].config)
              /\ \A k \in DOMAIN ServersMap(old) \ names :
                     ServersMap(new)[k] = ServersMap(old)[k]

\* C15 witness: a parseConfig of two entries succeeded on a file that held an
\* unrelated top-level key, another server's entry and a different entry for
\* one of the two names.
C15_Witness ==
    /\ last.op = "parseConfig" /\ last.success
    /\ Len(EntriesOf(last.arg)) = 2
    /\ last.pre.ext.kind = "json"
    /\ last.pre.ext.value.unrelated # {}
    /\ {"a", FooName} \subseteq DOMAIN ServersMap(last.pre.ext.value)
    /\ ServersMap(last.pre.ext.value)[FooName] # ServersMap(externalFile.value)[FooName]
    /\ "a" \in DOMAIN ServersMap(externalFile.value)

\* The last call was an install, through either installer.
IsInstall == last.op \in {"install", "classInstall"}

\* The name of the last install is found in the registry its installer
\* consults: handleInstallServer reloads the registry file and finds by
\* fragment, MCPAutoInstallServer looks the name up in its map.
InstallNameFound ==
    IF last.op = "install"
    THEN \E i \in 1..Len(PersistedServers(last.pre.file)) :
             Includes(PersistedServers(last.pre.file)[i].name, last.arg.serverName)
    ELSE last.arg.serverName \in DOMAIN last.arg.registry

\* C16: an install whose server name is not found in the registry returns
\* success:false and has run no command at all (no npx, no git clone, no
\* npm), leaving the disk as it was.
C16_InstallNeedsRegisteredName ==
    (IsInstall /\ ~InstallNameFound) =>
        /\ ~last.success
        /\ ~last.threw
        /\ last.steps = <<>>
        /\ disk = last.preDisk

\* C16 witness: an install of a name that matches no record of a registry
\* that holds records was refused.
C16_Witness ==
    /\ IsInstall /\ ~InstallNameFound /\ ~last.success
    /\ \/ last.op = "install" /\ Len(PersistedServers(last.pre.file)) > 0
       \/ last.op = "classInstall" /\ DOMAIN last.arg.registry # {}

\* The last install preferred npx and its npx strategy failed: the package
\* runner's command, the first command of the install, failed, or the wrapper
\* script could not be written.
NpxStrategyFailed ==
    /\ last.arg.useNpx
    /\ \/ last.arg.env.failAt = 1
       \/ last.op = "classInstall" /\ ~last.arg.env.binOk

\* Nothing stands in the way of the clone strategy of the last install: no
\* clone directory exists yet, the file system takes its directories, and no
\* command after the first fails.
CloneWouldSucceed ==
    /\ last.preDisk.dirs = {}
    /\ last.arg.env.failAt \in {0, 1}
    /\ IF last.op = "install" THEN last.arg.env.fsOk ELSE last.arg.env.tmpOk

RanClone == \E i \in 1..Len(last.steps) : Includes(last.steps[i], "git clone ")

\* C17: an install that prefers npx, whose npx strategy fails and whose clone
\* steps would all succeed, returns success:true after having run the clone,
\* with the install location in its result.
C17_InstallFallsBackToClone ==
    (IsInstall /\ InstallNameFound /\ NpxStrategyFailed /\ CloneWouldSucceed) =>
        /\ last.success
        /\ RanClone
        /\ last.installPath # None

\* The directories that existed before the last install and that its first
\* command, a git clone, names as its target.
ExistingCloneTargets ==
    IF Len(last.steps) = 0 THEN {}
    ELSE {dir \in last.preDisk.dirs :
             /\ Includes(last.steps[1], "git clone ")
             /\ EndsWith(last.steps[1], " " \o dir)}

\* C18: an install with the clone strategy whose target directory exists
\* already, left by an earlier install, and in which no command fails for a
\* reason of its own, succeeds and leaves the target directory in place.
C18_CloneTargetReset ==
    ( /\ IsInstall /\ InstallNameFound
      /\ ~last.arg.useNpx
      /\ last.arg.env.failAt = 0
      /\ IF last.op = "install" THEN last.arg.env.fsOk ELSE last.arg.env.tmpOk
      /\ ExistingCloneTargets # {} )
    => /\ last.success
       /\ ExistingCloneTargets \subseteq disk.dirs

\* The registry record the last install used: the first record of the
\* registry file whose name contains the argument, or the map's record.
InstalledRecord ==
    IF last.op = "install"
    THEN LET servers == PersistedServers(last.pre.file)
         IN  servers[CHOOSE i \in 1..Len(servers) :
                        /\ Includes(servers[i].name, last.arg.serverName)
                        /\ \A j \in 1..(i - 1) :
                               ~Includes(servers[j].name, last.arg.serverName)]
    ELSE last.arg.registry[last.arg.serverName]

\* The commands of a step, without the `cd <dir> && ` in front of them.
StripDirectory(step) ==
    LET i == IndexOf(step, " && ")
    IN  IF i = 0 THEN step ELSE SubSeq(step, i + 4, Len(step))

\* The commands the last install ran after its git clone.
StepsAfterClone ==
    LET at == CHOOSE i \in 1..Len(last.steps) : Includes(last.steps[i], "git clone ")
    IN  [k \in 1..(Len(last.steps) - at) |-> StripDirectory(last.steps[at + k])]

\* C19: in an install that ran the clone and in which no command failed, the
\* commands run after the clone are exactly the record's installCommands, in
\* their order, when that list is not empty, and exactly npm install, npm run
\* build, npm install -g otherwise.
C19_CustomCommandsReplaceDefaults ==
    (IsInstall /\ InstallNameFound /\ last.success /\ RanClone) =>
        StepsAfterClone =
            IF /\ InstalledRecord.installCommands # None
               /\ Len(InstalledRecord.installCommands[1]) > 0
            THEN InstalledRecord.installCommands[1]
            ELSE <<"npm install", "npm run build", "npm install -g">>

\* C20: when a command of the clone strategy fails (the clone, npm install,
\* npm run build, npm install -g or a custom command), it is the last command
\* the install runs, no command of the install has run twice, and the install
\* returns, without throwing, success:false with that command's error text.
C20_FirstFailureAborts ==
    (IsInstall /\ last.cloneFailure # None) =>
        /\ ~last.success
        /\ ~last.threw
        /\ last.steps # <<>>
        /\ last.steps[Len(last.steps)] = last.cloneFailure[1]
        /\ \A i, j \in 1..Len(last.steps) : last.steps[i] = last.steps[j] => i = j
        /\ last.errorText = Some(ErrorText(last.cloneFailure[1]))
        /\ last.installPath = None

\* C20 witness: the second command of a clone-strategy install, with further
\* commands to come after it, failed.
C20_Witness ==
    /\ IsInstall /\ ~last.arg.useNpx
    /\ last.cloneFailure # None
    /\ Len(last.steps) = 2
    /\ \/ /\ last.op = "install"
          /\ InstalledRecord.installCommands # None
       \/ last.op = "classInstall"

\* The operation handlers: register, remove, get-readme, save-command,
\* parse-config and the two installs.
HandlerOps ==
    {"register", "remove", "readme", "saveCommand", "parseConfig", "install",
     "classInstall"}

\* C21: no operation handler throws for an ordinary failure: a failing read
\* or write of the registry file or of the external file, a failing command
\* or a failing validation makes it return success:false; no exception
\* leaves the handler.
C21_NoHandlerThrows ==
    (last.op \in HandlerOps) => ~last.threw

\* The operations that change the registry: register, remove, the discovery
\* at startup and saveCommand.
MutatingOps == {"register", "remove", "start", "saveCommand"}

\* C22: after a mutating registry operation that started with the registry
\* file equal to the in-memory registry, whether it returned success, returned
\* failure or threw, the registry file again equals the in-memory registry.
C22_FileEqualsMemoryAfterMutation ==
    ( /\ last.op \in MutatingOps
      /\ last.pre.file = JSONstringify(last.pre.mem) )
    => settingsFile = JSONstringify(serverSettings)

\* C23: in a run that starts with no commandConfig and no entry in the
\* external file, and in which saveCommand and parseConfig alone write,
\* every record of the registry that has a commandConfig has the entry the
\* external file holds under the record's name, which is the entry a
\* reconciler operation wrote there last.
C23_CommandConfigIsLastPersisted ==
    \A i \in 1..Len(serverSettings.servers) :
        LET record == serverSettings.servers[i]
        IN  record.commandConfig # None =>
                /\ externalFile.kind = "json"
                /\ record.name \in DOMAIN ServersMap(externalFile.value)
                /\ ServersMap(externalFile.value)[record.name] = record.commandConfig[1]

EmptyRegistry == [servers |-> <<>>]

\* The loads: the last operation was one whose only use of the registry is
\* the load, get-readme for initSettings and the construction of an
\* MCPAutoInstallServer for loadRegistry.
LoadOps == {"readme", "classLoad"}

\* The registry file the load found, and the one it left.
LoadFoundFile ==
    IF last.op = "classLoad" THEN last.preDisk.registry ELSE last.pre.file

LoadLeftFile ==
    IF last.op = "classLoad" THEN disk.registry ELSE settingsFile

\* The write of the load, if it wrote, was refused.
LoadWriteRefused ==
    IF last.op = "classLoad" THEN ~last.arg.ok ELSE last.io.regFails # 0

\* The in-memory registry after the load holds no server.
LoadedEmpty ==
    IF last.op = "classLoad" THEN DOMAIN last.found[1] = {}
    ELSE serverSettings = EmptyRegistry

\* The file is a registry file that holds no server.
HoldsEmptyRegistry(file) ==
    /\ file.kind = "json"
    /\ IF last.op = "classLoad" THEN DOMAIN file.value = {}
       ELSE file.value = EmptyRegistry

\* C24: a load that finds no registry file, on a file system that takes the
\* write, leaves the in-memory registry empty and has written it: the
\* registry file exists afterwards and holds the empty registry.
C24_LoadCreatesMissingFile ==
    ( /\ last.op \in LoadOps
      /\ LoadFoundFile = MissingFile
      /\ ~LoadWriteRefused )
    => /\ LoadedEmpty
       /\ HoldsEmptyRegistry(LoadLeftFile)

\* C24 for initSettings alone: one read and one write.
C24_InitSettingsCreatesMissingFile ==
    ( /\ last.op = "readme"
      /\ last.pre.file = MissingFile
      /\ last.io.regFails = 0 )
    => /\ serverSettings = EmptyRegistry
       /\ settingsFile = JSONstringify(EmptyRegistry)
       /\ last.io.regReads = 1
       /\ last.io.regWrites = 1

C25_ClassWitness ==
    /\ last.op = "classLoad"
    /\ last.preDisk.registry = MalformedFile
    /\ disk.registry = MalformedFile

\* C26: every invocation of the command line, whatever its subcommand and
\* whether its operation succeeded, reported a failure or threw, ends the
\* process with exit code 0.
C26_EveryInvocationExitsZero ==
    (last.op = "cli") => (last.exit = Some(0))

\* The subcommands other than start end with exit code 0 on every path.
C26_OthersExitZero ==
    (last.op = "cli" /\ last.subcommand # "start") => (last.exit = Some(0))

\* A subcommand other than start whose operation threw, ended with 0.
C26_OthersWitness ==
    /\ last.op = "cli"
    /\ last.subcommand = "register"
    /\ last.threw
    /\ last.exit = Some(0)

\* The last install succeeded through the ephemeral-run strategy: it
\* preferred npx and ran no clone.
EphemeralSuccess ==
    /\ IsInstall /\ InstallNameFound
    /\ last.arg.useNpx
    /\ last.success
    /\ ~RanClone

\* The package a package-runner command names: the word after `npx `.
RunnerPackage(step) ==
    LET rest == SubSeq(step, 5, Len(step))
        i == IndexOf(rest, " ")
    IN  IF i = 0 THEN rest ELSE SubSeq(rest, 1, i - 1)

\* The wrapper scripts on disk at a path made of a bin directory and the
\* command of the record the last install used, executable, whose body
\* hands all its arguments to the package runner with the package the
\* install ran.
Wrappers ==
    {p \in DOMAIN disk.scripts :
        /\ EndsWith(p, "/bin/" \o InstalledRecord.command)
        /\ disk.scripts[p].mode = "755"
        /\ Includes(disk.scripts[p].body,
               "npx " \o RunnerPackage(last.steps[Len(last.steps)]) \o " \"$@\"")}

\* C27: after an install that succeeded through the ephemeral-run strategy
\* an executable wrapper script for the record's command exists, invoking
\* the package runner with the record's package and all arguments, and the
\* result carries the script's path.
C27_EphemeralSuccessLeavesWrapper ==
    EphemeralSuccess =>
        \E p \in Wrappers : last.installPath = Some(p)

\* MCPAutoInstallServer.installServer alone leaves the wrapper script.
C27_ClassLeavesWrapper ==
    (EphemeralSuccess /\ last.op = "classInstall") => Wrappers # {}

\* An ephemeral-run install through MCPAutoInstallServer left a wrapper.
C27_ClassWitness ==
    EphemeralSuccess /\ last.op = "classInstall" /\ Wrappers # {}

\* The last install through handleInstallServer, run again from the same
\* registry and disk with the same environment but for the captured stderr.
SameRunWithStderr(stderr) ==
    handleInstallServer(World(last.pre.mem, last.pre.file, last.pre.ext),
                        last.preDisk, last.arg.serverName, last.arg.useNpx,
                        [last.arg.env EXCEPT !.stderr = stderr], TRUE)

\* C28: the success value of an install through the ephemeral-run strategy
\* is the same whatever the package runner wrote to stderr, and it is true
\* whenever the package runner was invoked and ended without error.
C28_StderrNeverDecides ==
    (last.op = "install" /\ last.arg.useNpx) =>
        /\ \A stderr \in StderrTexts : SameRunWithStderr(stderr).success = last.success
        /\ (Len(last.steps) = 2 /\ last.arg.env.failAt # 1) => last.success

\* C28 witness: the package runner ended without error having written to
\* stderr; the install succeeded and its result carries the text.
C28_Witness ==
    /\ last.op = "install" /\ last.arg.useNpx
    /\ Len(last.steps) = 2
    /\ last.arg.env.stderr # ""
    /\ last.success
    /\ last.errorText = Some(last.arg.env.stderr)

\* The last step was the write of a reconciler handler that another program
\* had overtaken between its read and its write, and the write was done.
RacedWrite ==
    /\ last.op = "raced"
    /\ last.edit # None
    /\ last.io.extWrites > last.io.extFails

\* The entries the raced handler writes of its own.
OwnEntries ==
    IF last.handler = "saveCommand"
    THEN [k \in {last.arg.serverName} |-> EntryOfCall(last.arg)]
    ELSE LET entries == last.arg.mcpServers[1]
         IN  [k \in {entries[i].name : i \in 1..Len(entries)} |->
                WrittenEntry(entries[CHOOSE i \in 1..Len(entries) :
                                        entries[i].name = k].config)]

\* The document the raced handler had read; handleParseConfig takes a file
\* it cannot read for an empty document.
SnapshotDocument ==
    IF ReadThrows(last.snapshot) THEN Document({}, None) ELSE JSONparse(last.snapshot)

\* C29: when another program writes the external file between the read and
\* the write of saveCommand or parseConfig, the handler's write wins: the
\* file ends as the document the handler had read plus the handler's own
\* entries, and what the other program wrote is gone.
C29_ReconcilerWriteWins ==
    RacedWrite =>
        /\ externalFile.kind = "json"
        /\ externalFile # last.edit[1]
        /\ JSONparse(externalFile).unrelated = SnapshotDocument.unrelated
        /\ DOMAIN ServersMap(JSONparse(externalFile))
              = DOMAIN ServersMap(SnapshotDocument) \cup DOMAIN OwnEntries
        /\ \A k \in DOMAIN ServersMap(JSONparse(externalFile)) :
              ServersMap(JSONparse(externalFile))[k] =
                 IF k \in DOMAIN OwnEntries THEN OwnEntries[k]
                 ELSE ServersMap(SnapshotDocument)[k]

\* C29 witness: another program added an entry of its own while saveCommand
\* was between its read and its write; the entry is not in the file.
C29_Witness ==
    /\ RacedWrite
    /\ last.handler = "saveCommand"
    /\ "ext" \in DOMAIN ServersMap(JSONparse(last.edit[1]))
    /\ "ext" \notin DOMAIN ServersMap(JSONparse(externalFile))

\* The same for parseConfig.
C29_ParseWitness ==
    /\ RacedWrite
    /\ last.handler = "parseConfig"
    /\ "ext" \in DOMAIN ServersMap(JSONparse(last.edit[1]))
    /\ "ext" \notin DOMAIN ServersMap(JSONparse(externalFile))

\* The transitions of an install request: from the choice of the strategy to
\* the package runner or, with the clone preference, to the clone; from the
\* package runner to DONE or, on failure, to the clone; from the clone
\* through the dependency install and the build or custom commands to DONE;
\* from any phase to FAILED.
AllowedTransitions ==
    { <<"SELECT_STRATEGY", "TRY_NPX">>, <<"SELECT_STRATEGY", "CLONE">>,
      <<"TRY_NPX", "DONE">>, <<"TRY_NPX", "CLONE">>,
      <<"CLONE", "DEPS">>, <<"DEPS", "BUILD_OR_CUSTOM">>,
      <<"BUILD_OR_CUSTOM", "DONE">> }
    \cup {<<p, "FAILED">> : p \in Phases \ TerminalPhases}

\* The custom commands of a record stand for the whole default sequence, the
\* dependency install included: they may follow the clone.
TransitionsWithCustom == AllowedTransitions \cup {<<"CLONE", "BUILD_OR_CUSTOM">>}

\* A step of the request under way that stays in its phase with another
\* command, as the commands of a build do.
NextCommandOfPhase ==
    /\ last'.phase = last.phase
    /\ last.ran >= 1
    /\ last.result.steps[last.ran + 1] # last.result.steps[last.ran]

\* C30: an install request moves along the transitions of the installer's
\* state machine alone, runs no package runner when the clone is preferred,
\* leaves TRY_NPX for CLONE only after a failure, and does not leave DONE or
\* FAILED.
C30_RequestTransitions ==
    [][ /\ Installing =>
            /\ last'.op = "request"
            /\ \/ <<last.phase, last'.phase>> \in TransitionsWithCustom
               \/ NextCommandOfPhase
            /\ ~last.arg.useNpx => last'.phase # "TRY_NPX"
        /\ (last.op = "request" /\ ~Installing) =>
              (last'.op = "request" /\ last'.phase = "SELECT_STRATEGY") ]_vars

\* The same without the transition from the clone to the custom commands.
C30_ListedTransitionsOnly ==
    [][ Installing =>
            \/ <<last.phase, last'.phase>> \in AllowedTransitions
            \/ NextCommandOfPhase ]_vars

\* Every request, its commands ending, reaches DONE or FAILED.
C30_RequestEnds ==
    (last.op = "request" /\ last.phase = "SELECT_STRATEGY")
        ~> (last.op = "request" /\ last.phase \in TerminalPhases)

\* The requests handleInstallServer serves but for those that end after the
\* dependency install.
C30_ClassRequestTransitions ==
    [][ (Installing /\ last.installer = "MCPAutoInstallServer") =>
            \/ <<last.phase, last'.phase>> \in TransitionsWithCustom
            \/ NextCommandOfPhase ]_vars

\* A request that preferred the package runner, fell back on the clone and
\* went through every phase to DONE.
C30_Witness ==
    /\ last.op = "request"
    /\ last.phase = "DONE"
    /\ \E i \in 1..Len(last.path) : last.path[i] = "TRY_NPX"
    /\ \E i \in 1..Len(last.path) : last.path[i] = "DEPS"
    /\ \E i \in 1..Len(last.path) : last.path[i] = "BUILD_OR_CUSTOM"

\* The steps of the resolution as the last call's inputs decide them.
ToolAnswer ==
    IF last.arg.cli # None /\ Trim(last.arg.cli[1]) # ""
    THEN Some(Trim(last.arg.cli[1])) ELSE None

\* The packages the index answered with, none when the query failed.
IndexPackages ==
    IF last.arg.finder.failed THEN <<>> ELSE last.arg.finder.packages

\* Positions of the index packages whose repository link contains owner/repo,
\* and of those whose name ends with /repo.
LinkMatches ==
    {i \in 1..Len(IndexPackages) :
        /\ IndexPackages[i].repository # None
        /\ Includes(IndexPackages[i].repository[1], last.arg.repo.path[1])}

NameMatches2 ==
    {i \in 1..Len(IndexPackages) :
        EndsWith(IndexPackages[i].name, "/" \o LastSegment(last.arg.repo.path[1]))}

Least(S) == CHOOSE x \in S : \A y \in S : x <= y

\* C31: the resolution returns the trimmed output of the tool when it is not
\* empty; else, for a GitHub URL, the first index package whose link
\* contains owner/repo, else the first whose name ends with /repo, else
\* @modelcontextprotocol/<repo>, a failed tool or a failed index query
\* counting as no answer; and the last path segment of the URL without
\* .git under @modelcontextprotocol only when the URL gives no owner/repo.
C31_ResolutionOrder ==
    (last.op = "resolve") =>
        IF ToolAnswer # None THEN last.found = ToolAnswer
        ELSE IF last.arg.repo.path # None
        THEN IF LinkMatches # {}
             THEN last.found = Some(IndexPackages[Least(LinkMatches)].name)
             ELSE IF NameMatches2 # {}
             THEN last.found = Some(IndexPackages[Least(NameMatches2)].name)
             ELSE last.found = Some("@modelcontextprotocol/"
                                       \o LastSegment(last.arg.repo.path[1]))
        ELSE \/ last.found = None
             \/ last.found = Some("@modelcontextprotocol/"
                   \o ReplaceFirst(LastSegment(last.arg.repo.url), ".git", ""))

\* C31 witness: the tool printed nothing, the index holds a package that
\* matches by name before one that matches by link, and the resolution gave
\* the one that matches by link.
C31_Witness ==
    /\ last.op = "resolve"
    /\ ToolAnswer = None
    /\ last.arg.repo.path # None
    /\ LinkMatches # {} /\ NameMatches2 # {}
    /\ Least(NameMatches2) < Least(LinkMatches)
    /\ last.found = Some(IndexPackages[Least(LinkMatches)].name)

\* The last fallback was used for a URL of another host.
C31_FallbackWitness ==
    /\ last.op = "resolve"
    /\ last.arg.repo.path = None
    /\ last.found = Some("@modelcontextprotocol/foo")

\* The last install preferred npx for a record whose repository URL has no
\* '/' in it, and the name-resolution tool gave no answer.
NoUsablePath ==
    /\ last.op = "install" /\ InstallNameFound
    /\ last.arg.useNpx
    /\ last.arg.env.cli = None \/ Trim(last.arg.env.cli[1]) = ""
    /\ ~Includes(InstalledRecord.repo, "/")

\* C32: an ephemeral-run install of a record whose repository URL gives no
\* path at all, the tool having answered nothing, returns success:false and
\* has run the package runner on no package: the only command it ran is the
\* name-resolution tool.
C32_NoPathFailsBeforeRunner ==
    NoUsablePath =>
        /\ ~last.success /\ ~last.threw
        /\ last.errorText =
              Some("Could not determine package name for " \o InstalledRecord.repo)
        /\ last.steps = <<"npx npx-scope-finder find " \o InstalledRecord.repo>>
        /\ disk = last.preDisk

\* C32 witness: the record discovery stored with an empty repository URL
\* was installed with npx and the install failed.
C32_Witness ==
    /\ NoUsablePath
    /\ InstalledRecord.repo = ""
    /\ ~last.success

\* The position of the record of a name in a list of records.
Position(servers, name) == CHOOSE i \in 1..Len(servers) : servers[i].name = name

\* The memory of the process is not ahead of the registry file: it is the
\* file's content or has not been loaded.
Consistent ==
    \/ serverSettings.servers = <<>>
    \/ settingsFile = JSONstringify(serverSettings)

\* The records of the loaded registry whose name contains the fragment of
\* the last find.
Matches ==
    {i \in 1..Len(serverSettings.servers) :
        Includes(serverSettings.servers[i].name, last.arg)}

C34_RemoveFindsPersistedRecord ==
    ( /\ last.op = "remove"
      /\ last.arg \in NamesOf(PersistedServers(last.pre.file))
      /\ last.io.regFails = 0 )
    => /\ last.success
       /\ last.arg \notin NamesOf(PersistedServers(settingsFile))

\* C35: a saveCommand that returns success:false has left the external
\* configuration file as it was before the call.
C35_FailedSaveCommandLeavesExternalFile ==
    (last.op = "saveCommand" /\ ~last.success) => externalFile = last.pre.ext

\* C36: a removeServer request that has returned success, whatever ran
\* between its awaits, has left the registry file without the record.
C36_RemoveNotUndoneByReload ==
    ( /\ last.op = "await" /\ last.subject = "remove"
      /\ last.pc = "done" /\ last.success )
    => last.arg \notin NamesOf(PersistedServers(settingsFile))

\* A removeServer request with no other request between its awaits.
C36_RemoveAloneRemoves ==
    ( /\ last.op = "await" /\ last.subject = "remove"
      /\ last.pc = "done" /\ last.success /\ ~last.stale )
    => last.arg \notin NamesOf(PersistedServers(settingsFile))

\* C37: a saveNpxCommand request that has returned success, whatever ran
\* between its awaits, has left its command on the record of the registry
\* file that it found.
C37_CommandConfigNotLostToReload ==
    ( /\ last.op = "await" /\ last.subject = "saveCommand"
      /\ last.pc = "done" /\ last.success )
    => PersistedServers(settingsFile)[last.index].commandConfig =
          Some(CommandEntry(last.arg.command, last.arg.args, last.arg.env))

\* A saveNpxCommand request with no reload after its findServer.
C37_SaveCommandAlonePersists ==
    ( /\ last.op = "await" /\ last.subject = "saveCommand"
      /\ last.pc = "done" /\ last.success /\ ~last.stale )
    => PersistedServers(settingsFile)[last.index].commandConfig =
          Some(CommandEntry(last.arg.command, last.arg.args, last.arg.env))

\* C38: calling a tool that the tool-list handler advertises returns a
\* result envelope and never reaches the `Unknown tool` fault, which is raised
\* only for names that are not advertised.
C38_AdvertisedToolsAreDispatched ==
    (last.op = "callTool") =>
        /\ (last.tool \in AdvertisedTools) => (last.envelope /\ ~last.unknown)
        /\ last.unknown => (last.tool \notin AdvertisedTools)

\* Every advertised tool but the get-readme one is dispatched, and the fault
\* is raised for every name that is not advertised.
C38_AllButReadmeDispatched ==
    (last.op = "callTool") =>
        /\ (last.tool \in AdvertisedTools \ {"mcp_auto_install_getServerReadme"})
              => (last.envelope /\ ~last.unknown)
        /\ (last.tool \notin AdvertisedTools) => (last.unknown /\ last.threw)

\* C39: a parseConfig call that finds the external file present but
\* unreadable or malformed leaves it as it is; only an absent file is taken
\* for an empty document.
C39_ParseConfigKeepsUnreadableFile ==
    ( /\ last.op = "parseConfig"
      /\ ReadThrows(last.pre.ext)
      /\ last.pre.ext # MissingFile )
    => externalFile = last.pre.ext

\* What the handler does with such a file: a validated call replaces it by a
\* document holding nothing but the parsed mcpServers, as for an absent file.
C39_UnreadableFileTakenForEmpty ==
    ( /\ last.op = "parseConfig"
      /\ last.success
      /\ ReadThrows(last.pre.ext) )
    => externalFile =
          JSONstringify(MergeConfig([unrelated |-> {}, mcpServers |-> None],
                                    IF last.arg.mcpServers # None
                                    THEN last.arg.mcpServers[1] ELSE <<>>))

====
